---- MODULE Spec2Model ----
(***************************************************************************)
(* A model of blox2: a single-pass compiler (src/src/compiler.rs) emitting *)
(* bytecode into a Chunk (src/src/chunk.rs) and an Arena                   *)
(* (src/src/arena.rs), and the stack VM that runs it (src/src/vm.rs).      *)
(*                                                                         *)
(* The compiler reads tokens.  Its statement-level functions are actions   *)
(* over an explicit call stack (frames); its expression-level functions    *)
(* (parse_precedence and the prefix/infix rules) are recursive operators   *)
(* over the compiler record.  The VM executes one instruction per step.    *)
(***************************************************************************)
EXTENDS Integers, Sequences, FiniteSets, TLC

\* ------------------------------------------------------------------ bounds
\* Longest interior (in pieces) of a generated block program.
MaxPieces == 5
\* Longest generated sequence of top-level statements.
MaxStmts == 2
\* Longest generated sequence of arbitrary tokens.
MaxSoup == 3
\* Number of input lines of a REPL session.
MaxLines == 2
\* Chunk on its own: the writes of one chunk and the source lines they carry.
MaxWrites == 4
MaxLine == 3
\* Scanner on its own: the characters of a source drawn from ScanAlphabet.
MaxChars == 4
\* Arena on its own: the calls of push and clean made on a new arena.
MaxCalls == 5

\* ----------------------------------------------------------------- values
\* value.rs: a Value is Nil, Bool, Number or Obj(arena index).  Booleans are
\* kept as 0/1 and numbers as integers so that any two values compare.
NilV == [t |-> "Nil", v |-> 0]
BoolV(b) == [t |-> "Bool", v |-> IF b THEN 1 ELSE 0]
NumberV(n) == [t |-> "Number", v |-> n]
ObjV(i) == [t |-> "Obj", v |-> i]

is_number(value) == value.t = "Number"

\* is_falsey, had it counted the number 0 as falsey too.
is_falsey_zero(value) == value.v = 0 /\ value.t \in {"Nil", "Bool", "Number"}

is_falsey(value) == value.t = "Nil" \/ (value.t = "Bool" /\ value.v = 0)

\* Heap payloads: a string or an interned identifier.
StrO(s) == [kind |-> "Str", text |-> s]
IdentO(s) == [kind |-> "Ident", text |-> s]

\* ------------------------------------------------------------------ arena
\* arena.rs: two buffers and a selector; indices are 0-based.
ArenaNew == [a |-> <<>>, b |-> <<>>, current |-> "A"]

arena_live(ar) == IF ar.current = "A" THEN ar.a ELSE ar.b

arena_len(ar) == Len(arena_live(ar))

arena_get(ar, index) == arena_live(ar)[index + 1]

\* push, had it put the item in front of the live buffer.
arena_push_in_front(ar, item) ==
    IF ar.current = "A" THEN [ar EXCEPT !.a = <<item>> \o @]
    ELSE [ar EXCEPT !.b = <<item>> \o @]

arena_push(ar, item) ==
    IF ar.current = "A" THEN [ar EXCEPT !.a = Append(@, item)]
    ELSE [ar EXCEPT !.b = Append(@, item)]

\* Heap::next.
heap_next(heap) == IF heap = "A" THEN "B" ELSE "A"

\* The buffer that is not live.
arena_other(ar) == IF ar.current = "A" THEN ar.b ELSE ar.a

\* clean, had it left the items in the buffer it copied them from.
arena_clean_keeps_old(ar) ==
    IF ar.current = "A"
    THEN [ar EXCEPT !.b = @ \o ar.a, !.current = heap_next(@)]
    ELSE [ar EXCEPT !.a = @ \o ar.b, !.current = heap_next(@)]

\* clean: the closure pushes a clone of every item of the live buffer onto
\* the other one and returns the Vec::new() that replaces the live buffer;
\* then the selector flips.
arena_clean(ar) ==
    IF ar.current = "A"
    THEN [ar EXCEPT !.b = @ \o ar.a, !.a = <<>>, !.current = heap_next(@)]
    ELSE [ar EXCEPT !.a = @ \o ar.b, !.b = <<>>, !.current = heap_next(@)]

\* ------------------------------------------------------------------ chunk
Op(name, arg) == [op |-> name, arg |-> arg]
Op0(name) == Op(name, 0)

ChunkNew == [code |-> <<>>, lines |-> <<>>, constants |-> <<>>]

\* write, had it put the byte in front of the code.
write_in_front(chunk, byte, line) ==
    [chunk EXCEPT
        !.code = <<byte>> \o @,
        !.lines = IF line >= Len(@) THEN Append(@, 1)
                  ELSE IF line >= 1 THEN [@ EXCEPT ![line] = @ + 1]
                  ELSE @]

\* chunk.rs write: lines[line - 1] is the 1-based element `line`.  A line of
\* 0 with a non-empty table would index lines[-1]: the table is left alone
\* here and the caller's panic flag is what records it (see emit_byte).
write(chunk, byte, line) ==
    [chunk EXCEPT
        !.code = Append(@, byte),
        !.lines = IF line >= Len(@) THEN Append(@, 1)
                  ELSE IF line >= 1 THEN [@ EXCEPT ![line] = @ + 1]
                  ELSE @]

write_panics(chunk, line) == line < Len(chunk.lines) /\ line < 1

add_constant(chunk, constant) ==
    [chunk EXCEPT !.constants = Append(@, constant)]

code_len(chunk) == Len(chunk.code)

read_op(chunk, index) == chunk.code[index + 1]

read_constant(chunk, index) == chunk.constants[index + 1]

RECURSIVE get_line_loop(_, _, _, _)
get_line_loop(lines, offset, line_counter, current_index) ==
    IF line_counter < offset /\ current_index < Len(lines)
    THEN get_line_loop(lines, offset, line_counter + lines[current_index + 1],
                       current_index + 1)
    ELSE current_index

get_line(chunk, offset) == get_line_loop(chunk.lines, offset, chunk.lines[1], 1)

\* ----------------------------------------------------------------- tokens
\* token.rs Token, without the start and length that only error lines print.
\* Only Error tokens carry a message.
ErrorTok(message, lexeme, line) ==
    [typ |-> "Error", lexeme |-> lexeme, line |-> line, message |-> message]

Tok(typ, lexeme, line) == [typ |-> typ, lexeme |-> lexeme, line |-> line, message |-> ""]

\* Token::empty()
TokenEmpty == Tok("None", "", 0)

\* ---------------------------------------------------------------- scanner
\* scanner.rs over a source of characters (one-character strings).  The
\* Scanner is a record; a method that changes it returns the new record, or
\* the record and a value.  `abort` records a Rust panic: an index past the
\* end of `source`.
ScannerNew(source) ==
    [source |-> source, start |-> 0, current |-> 0, line |-> 1, abort |-> FALSE]

\* char::is_alphabetic, is_digit(10), is_alphanumeric on the characters used.
Letters ==
    {"a", "b", "c", "d", "e", "f", "g", "h", "i", "j", "k", "l", "m", "n", "o",
     "p", "q", "r", "s", "t", "u", "v", "w", "x", "y", "z"}
Digits == {"0", "1", "2", "3", "4", "5", "6", "7", "8", "9"}
is_alphabetic(ch) == ch \in Letters
is_digit(ch) == ch \in Digits
is_alphanumeric(ch) == is_alphabetic(ch) \/ is_digit(ch)

is_at_end(sc) == sc.current >= Len(sc.source)

\* self.source[i]; indexing past the end panics.
source_at(sc, i) == sc.source[i + 1]
index_panics(sc, i) == i >= Len(sc.source)

scanner_peek(sc) == source_at(sc, sc.current)

\* peek_next tests is_at_end() on `current` and then reads current + 1.
peek_next(sc) == IF is_at_end(sc) THEN "" ELSE source_at(sc, sc.current + 1)
peek_next_panics(sc) == ~is_at_end(sc) /\ index_panics(sc, sc.current + 1)

aborted(sc) == [sc EXCEPT !.abort = TRUE]

scanner_advance(sc) == [sc EXCEPT !.current = @ + 1]

RECURSIVE join(_)
join(chars) == IF chars = <<>> THEN "" ELSE Head(chars) \o join(Tail(chars))

\* lexeme(start, length): the characters source[start..start + length].
lexeme_at(sc, start, length) == join(SubSeq(sc.source, start + 1, start + length))

\* make_token: a Str token leaves out the closing quote (string_token has
\* moved start past the opening one).
make_token(sc, typ) ==
    LET length == IF typ = "Str" THEN sc.current - sc.start - 1
                  ELSE sc.current - sc.start
    IN Tok(typ, lexeme_at(sc, sc.start, length), sc.line)

error_token(sc, message) ==
    ErrorTok(message, lexeme_at(sc, sc.start, sc.current - sc.start), sc.line)

\* What scan_token hands back: the scanner after the call and the token.
Scanned(sc, token) == [sc |-> sc, token |-> token]

\* check(expected): consumes the next character when it is `expected`.
scanner_check(sc, expected) ==
    IF is_at_end(sc) THEN [sc |-> sc, v |-> FALSE]
    ELSE IF scanner_peek(sc) # expected THEN [sc |-> sc, v |-> FALSE]
    ELSE [sc |-> scanner_advance(sc), v |-> TRUE]

check_comment(sc) ==
    IF is_at_end(sc) THEN [sc |-> sc, v |-> FALSE]
    ELSE IF scanner_peek(sc) # "/" THEN [sc |-> sc, v |-> FALSE]
    ELSE IF peek_next_panics(sc) THEN [sc |-> aborted(sc), v |-> FALSE]
    ELSE IF peek_next(sc) # "/" THEN [sc |-> sc, v |-> FALSE]
    ELSE [sc |-> [sc EXCEPT !.current = @ + 2], v |-> TRUE]

\* skip_comments' inner loop: while self.peek() != '\n' && !self.is_at_end();
\* peek() is evaluated first.
RECURSIVE skip_line(_)
skip_line(sc) ==
    IF index_panics(sc, sc.current) THEN aborted(sc)
    ELSE IF scanner_peek(sc) # "\n" /\ ~is_at_end(sc) THEN skip_line(scanner_advance(sc))
    ELSE sc

RECURSIVE skip_comments(_)
skip_comments(sc) ==
    LET r == check_comment(sc)
    IN IF r.sc.abort \/ ~r.v THEN r.sc
       ELSE LET s1 == skip_line(r.sc)
            IN IF s1.abort THEN s1 ELSE skip_comments(s1)

\* skip_whitespace_and_comments, had it counted the end of input as a line.
RECURSIVE skip_counting_end(_)
skip_counting_end(sc) ==
    IF sc.abort THEN sc
    ELSE IF is_at_end(sc) THEN [sc EXCEPT !.line = @ + 1]
    ELSE LET ch == scanner_peek(sc)
         IN CASE ch \in {"\t", " ", "\r"} -> skip_counting_end(scanner_advance(sc))
              [] ch = "\n" ->
                    skip_counting_end([scanner_advance(sc) EXCEPT !.line = @ + 1])
              [] ch = "/" ->
                    IF peek_next_panics(sc) THEN aborted(sc)
                    ELSE IF peek_next(sc) # "/" THEN sc
                    ELSE skip_counting_end(skip_comments(sc))
              [] OTHER -> sc

RECURSIVE skip_whitespace_and_comments(_)
skip_whitespace_and_comments(sc) ==
    IF sc.abort \/ is_at_end(sc) THEN sc
    ELSE LET ch == scanner_peek(sc)
         IN CASE ch \in {"\t", " ", "\r"} ->
                    skip_whitespace_and_comments(scanner_advance(sc))
              [] ch = "\n" ->
                    skip_whitespace_and_comments(
                        [scanner_advance(sc) EXCEPT !.line = @ + 1])
              [] ch = "/" ->
                    IF peek_next_panics(sc) THEN aborted(sc)
                    ELSE IF peek_next(sc) # "/" THEN sc
                    ELSE skip_whitespace_and_comments(skip_comments(sc))
              [] OTHER -> sc

\* check_keyword(rest, typ): the run is one character longer than `rest`
\* and its characters after the first are `rest`.
check_keyword_any_length(sc, rest, typ) ==
    IF sc.current - sc.start >= Len(rest) + 1
          /\ SubSeq(sc.source, sc.start + 2, sc.start + 1 + Len(rest)) = rest
    THEN typ
    ELSE "Identifier"

check_keyword(sc, rest, typ) ==
    IF sc.current - sc.start = Len(rest) + 1
          /\ SubSeq(sc.source, sc.start + 2, sc.current) = rest
    THEN typ
    ELSE "Identifier"

identifier_type(sc) ==
    LET first == source_at(sc, sc.start)
        length == sc.current - sc.start
        second == source_at(sc, sc.start + 1)
        third == source_at(sc, sc.start + 2)
    IN CASE first = "a" -> check_keyword(sc, <<"n", "d">>, "And")
         [] first = "e" -> check_keyword(sc, <<"l", "s", "e">>, "Else")
         [] first = "i" -> check_keyword(sc, <<"f">>, "If")
         [] first = "n" -> check_keyword(sc, <<"i", "l">>, "Nil")
         [] first = "o" -> check_keyword(sc, <<"r">>, "Or")
         [] first = "p" -> check_keyword(sc, <<"r", "i", "n", "t">>, "Print")
         [] first = "r" -> check_keyword(sc, <<"e", "t", "u", "r", "n">>, "Return")
         [] first = "w" -> check_keyword(sc, <<"h", "i", "l", "e">>, "While")
         [] first = "d" ->
                check_keyword(sc, <<"e", "f", "a", "u", "l", "t">>, "Default")
         [] first = "c" ->
                IF length = 1 THEN "Identifier"
                ELSE CASE second = "a" -> check_keyword(sc, <<"a", "s", "e">>, "Case")
                       [] second = "l" ->
                              check_keyword(sc, <<"l", "a", "s", "s">>, "Class")
                       [] OTHER -> "Identifier"
         [] first = "s" ->
                IF length = 1 THEN "Identifier"
                ELSE CASE second = "w" ->
                              check_keyword(sc, <<"w", "i", "t", "c", "h">>, "Switch")
                       [] second = "u" ->
                              check_keyword(sc, <<"u", "p", "e", "r">>, "Super")
                       [] OTHER -> "Identifier"
         [] first = "v" ->
                IF length = 1 THEN "Identifier"
                ELSE IF second # "a" \/ length = 2 THEN "Identifier"
                ELSE IF third = "r" /\ length = 3 THEN "Var"
                ELSE IF third = "l" /\ length = 3 THEN "Val"
                ELSE "Identifier"
         [] first = "f" ->
                IF length = 1 THEN "Identifier"
                ELSE CASE second = "a" ->
                              check_keyword(sc, <<"a", "l", "s", "e">>, "False")
                       [] second = "o" -> check_keyword(sc, <<"o", "r">>, "For")
                       [] second = "u" -> check_keyword(sc, <<"u", "n">>, "Fun")
                       [] OTHER -> "Identifier"
         [] first = "t" ->
                IF length = 1 THEN "Identifier"
                ELSE CASE second = "h" -> check_keyword(sc, <<"h", "i", "s">>, "This")
                       [] second = "r" -> check_keyword(sc, <<"r", "u", "e">>, "True")
                       [] OTHER -> "Identifier"
         [] OTHER -> "Identifier"

RECURSIVE skip_alphanumeric(_)
skip_alphanumeric(sc) ==
    IF ~is_at_end(sc) /\ is_alphanumeric(scanner_peek(sc))
    THEN skip_alphanumeric(scanner_advance(sc))
    ELSE sc

identifier_token(sc) ==
    LET s1 == skip_alphanumeric(sc)
    IN Scanned(s1, make_token(s1, identifier_type(s1)))

RECURSIVE skip_digits(_)
skip_digits(sc) ==
    IF ~is_at_end(sc) /\ is_digit(scanner_peek(sc)) THEN skip_digits(scanner_advance(sc))
    ELSE sc

number_token(sc) ==
    LET s1 == skip_digits(sc)
    IN IF is_at_end(s1) \/ scanner_peek(s1) # "." THEN Scanned(s1, make_token(s1, "Number"))
       ELSE IF peek_next_panics(s1) THEN Scanned(aborted(s1), TokenEmpty)
       ELSE IF ~is_digit(peek_next(s1)) THEN Scanned(s1, make_token(s1, "Number"))
       ELSE LET s2 == skip_digits(scanner_advance(s1))
            IN Scanned(s2, make_token(s2, "Number"))

\* string_token's loop, had it left the line counter alone.
RECURSIVE skip_string_one_line(_)
skip_string_one_line(sc) ==
    IF ~is_at_end(sc) /\ scanner_peek(sc) # "\""
    THEN skip_string_one_line(scanner_advance(sc))
    ELSE sc

RECURSIVE skip_string(_)
skip_string(sc) ==
    IF ~is_at_end(sc) /\ scanner_peek(sc) # "\""
    THEN skip_string([scanner_advance(sc) EXCEPT
                          !.line = IF scanner_peek(sc) = "\n" THEN @ + 1 ELSE @])
    ELSE sc

\* string_token, had it made a Str token at the end of input too.
string_token_unchecked(sc) ==
    LET s1 == skip_string([sc EXCEPT !.start = @ + 1])
        s2 == scanner_advance(s1)
    IN Scanned(s2, make_token(s2, "Str"))

string_token(sc) ==
    LET s1 == skip_string([sc EXCEPT !.start = @ + 1])
    IN IF is_at_end(s1) THEN Scanned(s1, error_token(s1, "Unterminated string."))
       ELSE LET s2 == scanner_advance(s1)
            IN Scanned(s2, make_token(s2, "Str"))

\* The arms of scan_token's match that consume a second character.
one_or_two(sc, two, one) ==
    LET r == scanner_check(sc, "=")
    IN Scanned(r.sc, make_token(r.sc, IF r.v THEN two ELSE one))

SingleCharacter ==
    [x \in {"(", ")", "{", "}", ";", ":", ",", ".", "-", "+", "/", "*"} |->
        CASE x = "(" -> "LeftParen"
          [] x = ")" -> "RightParen"
          [] x = "{" -> "LeftBrace"
          [] x = "}" -> "RightBrace"
          [] x = ";" -> "SemiColon"
          [] x = ":" -> "Colon"
          [] x = "," -> "Comma"
          [] x = "." -> "Dot"
          [] x = "-" -> "Minus"
          [] x = "+" -> "Plus"
          [] x = "/" -> "Slash"
          [] x = "*" -> "Star"]

\* Scanner::scan_token on the characters of the source.
scanner_scan_token(sc) ==
    LET s0 == skip_whitespace_and_comments(sc)
        s1 == [s0 EXCEPT !.start = s0.current]
    IN IF s0.abort THEN Scanned(s0, TokenEmpty)
       ELSE IF is_at_end(s1) THEN Scanned(s1, make_token(s1, "Eof"))
       ELSE LET ch == scanner_peek(s1)
                s2 == scanner_advance(s1)
            IN CASE is_alphabetic(ch) -> identifier_token(s2)
                 [] is_digit(ch) -> number_token(s2)
                 [] ch \in DOMAIN SingleCharacter ->
                        Scanned(s2, make_token(s2, SingleCharacter[ch]))
                 [] ch = "!" -> one_or_two(s2, "BangEqual", "Bang")
                 [] ch = "=" -> one_or_two(s2, "EqualEqual", "Equal")
                 [] ch = "<" -> one_or_two(s2, "LessEqual", "Less")
                 [] ch = ">" -> one_or_two(s2, "GreaterEqual", "Greater")
                 [] ch = "\"" -> string_token(s2)
                 [] OTHER -> Scanned(s2, error_token(s2, "Unexpected character."))

\* The tokens the calls of scan_token return for a source, up to Eof.  The
\* scanner does not depend on the parser, so the compiler over a source of
\* characters is the compiler over these tokens.
RECURSIVE scan_from(_)
scan_from(sc) ==
    LET r == scanner_scan_token(sc)
    IN IF r.sc.abort \/ r.token.typ = "Eof" THEN <<>>
       ELSE <<r.token>> \o scan_from(r.sc)

scan_source(source) == scan_from(ScannerNew(source))

\* ------------------------------------------------------- precedence, rules
Precedence ==
    [None |-> 0, Assignment |-> 1, Or |-> 2, And |-> 3, Equality |-> 4,
     Comparison |-> 5, Term |-> 6, Factor |-> 7, Unary |-> 8, Call |-> 9,
     Primary |-> 10]

\* Precedence::next, had it returned the level it was given.
precedence_next_same(p) == p

precedence_next(p) == IF p >= Precedence.Primary THEN Precedence.Primary ELSE p + 1

BinaryTokens ==
    {"Minus", "Plus", "Slash", "Star", "BangEqual", "EqualEqual", "Greater",
     "GreaterEqual", "Less", "LessEqual"}

rule_prefix(typ) ==
    CASE typ = "LeftParen" -> "Grouping"
      [] typ \in {"Minus", "Bang"} -> "Unary"
      [] typ = "Number" -> "Number"
      [] typ = "Str" -> "Str"
      [] typ \in {"False", "Nil", "True"} -> "Literal"
      [] typ = "Identifier" -> "Variable"
      [] OTHER -> "None"

rule_infix(typ) == IF typ \in BinaryTokens THEN "Binary" ELSE "None"

rule_precedence(typ) ==
    CASE typ \in {"Minus", "Plus"} -> Precedence.Term
      [] typ \in {"Slash", "Star"} -> Precedence.Factor
      [] typ \in {"BangEqual", "EqualEqual"} -> Precedence.Equality
      [] typ \in {"Greater", "GreaterEqual", "Less", "LessEqual"} -> Precedence.Comparison
      [] OTHER -> Precedence.None

get_rule(typ) ==
    [prefix |-> rule_prefix(typ), infix |-> rule_infix(typ),
     precedence |-> rule_precedence(typ)]

\* --------------------------------------------------------------- compiler
UNINITIALIZED_SCOPE == -1
GLOBAL_SCOPE == 0

Local(name, depth) == [name |-> name, depth |-> depth]

\* The compiler record: the Scanner (tokens still to be returned and the
\* number returned so far), the Parser, the locals, the scope depth, the
\* chunk and the arena it borrows from the VM.  `reported` is the stderr log
\* of Parser::error (the message and whether panic mode was already set),
\* `abort` records a Rust panic, and `refs` and `ifs` are history fields:
\* the offsets of the GetLocal/SetLocal instructions with the name each was
\* emitted for, and for each if statement the offsets emit_jump returned
\* for its JumpIfFalse and Jump and code_len() at its last patch_jump (-1
\* until then); `patched` lists the offsets handed to patch_jump, in order.
CompilerNew(source, objs) ==
    [tokens |-> source, pos |-> 0,
     previous |-> TokenEmpty, current |-> TokenEmpty,
     had_error |-> FALSE, panic_mode |-> FALSE, reported |-> <<>>,
     locals |-> <<>>, scope_depth |-> 0,
     chunk |-> ChunkNew, objects |-> objs,
     abort |-> FALSE, refs |-> {}, ifs |-> {}, patched |-> <<>>]

\* The line the scanner is on once the source is exhausted.
eof_line(tokens) == IF tokens = <<>> THEN 1 ELSE tokens[Len(tokens)].line

\* Scanner::scan_token as the compiler sees it: the next token of the
\* source, then Eof for ever.
scan_token(c) ==
    IF c.pos < Len(c.tokens) THEN c.tokens[c.pos + 1]
    ELSE Tok("Eof", "", eof_line(c.tokens))

scanner_step(c) == IF c.pos < Len(c.tokens) THEN c.pos + 1 ELSE c.pos

\* Parser::error: prints unconditionally (the current token's message when
\* called with an empty one), sets both flags.
parser_error(c, message) ==
    [c EXCEPT !.reported = Append(@, [msg |-> IF message = "" THEN c.current.message
                                              ELSE message,
                                      panicking |-> c.panic_mode]),
              !.had_error = TRUE,
              !.panic_mode = TRUE]

parser_check(c, typ) == c.current.typ = typ

RECURSIVE advance_scan(_)
advance_scan(c) ==
    LET c1 == [c EXCEPT !.current = scan_token(c), !.pos = scanner_step(c)]
    IN IF c1.current.typ # "Error" THEN c1
       ELSE advance_scan(parser_error(c1, ""))

advance(c) == advance_scan([c EXCEPT !.previous = c.current, !.current = TokenEmpty])

\* The tokens the parser has not consumed: `current` and what the scanner
\* has yet to return, none once `current` is Eof.
unread(c) == IF c.current.typ = "Eof" THEN 0 ELSE Len(c.tokens) - c.pos + 1

consume(c, typ, message) ==
    IF c.current.typ = typ THEN advance(c) ELSE parser_error(c, message)

\* Compiler::check advances when the current token matches; parser_check
\* gives the boolean it returns.
check(c, typ) == IF parser_check(c, typ) THEN advance(c) ELSE c

emit_byte(c, byte) ==
    [c EXCEPT !.chunk = write(c.chunk, byte, c.previous.line),
              !.abort = @ \/ write_panics(c.chunk, c.previous.line)]

emit_bytes(c, first, second) == emit_byte(emit_byte(c, first), second)

make_constant(c, value) ==
    LET index == Len(c.chunk.constants)
    IN emit_byte([c EXCEPT !.chunk = add_constant(c.chunk, value)],
                 Op("Constant", index))

\* str::parse::<f64> on the lexemes the pools use.
NumberLexemes == {"0", "1", "2", "3"}
parse_number(lexeme) ==
    CASE lexeme = "0" -> 0 [] lexeme = "1" -> 1 [] lexeme = "2" -> 2
      [] lexeme = "3" -> 3 [] OTHER -> 0

number(c) ==
    IF c.previous.lexeme \in NumberLexemes
    THEN make_constant(c, NumberV(parse_number(c.previous.lexeme)))
    ELSE [c EXCEPT !.abort = TRUE]

string(c) ==
    LET c1 == [c EXCEPT !.objects = arena_push(@, StrO(c.previous.lexeme))]
    IN make_constant(c1, ObjV(arena_len(c1.objects) - 1))

literal(c) ==
    CASE c.previous.typ = "False" -> emit_byte(c, Op0("False"))
      [] c.previous.typ = "Nil" -> emit_byte(c, Op0("Nil"))
      [] c.previous.typ = "True" -> emit_byte(c, Op0("True"))
      [] OTHER -> [c EXCEPT !.abort = TRUE]

\* identifier_constant: the new compiler record and the constant's index.
identifier_constant(c, name) ==
    LET c1 == [c EXCEPT !.objects = arena_push(@, IdentO(name))]
        value == ObjV(arena_len(c1.objects) - 1)
    IN [c |-> [c1 EXCEPT !.chunk = add_constant(@, value)],
        index |-> Len(c1.chunk.constants)]

\* The index resolve_local returns (Some(index)), or -1 for None: the last
\* local of that name.
resolve_index(locals, name) ==
    LET found == {i \in 1..Len(locals) : locals[i].name = name}
    IN IF found = {} THEN -1
       ELSE (CHOOSE i \in found : \A j \in found : j <= i) - 1

\* resolve_local, had it not looked at the local's depth.
resolve_local_any_depth(c, name) ==
    [c |-> c, arg |-> resolve_index(c.locals, name)]

resolve_local(c, name) ==
    LET index == resolve_index(c.locals, name)
    IN [c |-> IF index >= 0 /\ c.locals[index + 1].depth = UNINITIALIZED_SCOPE
              THEN parser_error(c, "Can't read local variable in its own initializer.")
              ELSE c,
        arg |-> index]

RECURSIVE parse_precedence(_, _)
RECURSIVE infix_loop(_, _)
RECURSIVE binary(_)
RECURSIVE unary(_)
RECURSIVE grouping(_)
RECURSIVE named_variable(_, _, _)

expression(c) == parse_precedence(c, Precedence.Assignment)

binary_emit(c, op_type) ==
    CASE op_type = "Plus" -> emit_byte(c, Op0("Add"))
      [] op_type = "Minus" -> emit_byte(c, Op0("Subtract"))
      [] op_type = "Star" -> emit_byte(c, Op0("Multiply"))
      [] op_type = "Slash" -> emit_byte(c, Op0("Divide"))
      [] op_type = "BangEqual" -> emit_bytes(c, Op0("Equal"), Op0("Not"))
      [] op_type = "EqualEqual" -> emit_byte(c, Op0("Equal"))
      [] op_type = "Greater" -> emit_byte(c, Op0("Greater"))
      [] op_type = "GreaterEqual" -> emit_bytes(c, Op0("Less"), Op0("Not"))
      [] op_type = "Less" -> emit_byte(c, Op0("Less"))
      [] op_type = "LessEqual" -> emit_bytes(c, Op0("Greater"), Op0("Not"))
      [] OTHER -> [c EXCEPT !.abort = TRUE]

binary(c) ==
    LET op_type == c.previous.typ
        rule == get_rule(op_type)
    IN binary_emit(parse_precedence(c, precedence_next(rule.precedence)), op_type)

unary(c) ==
    LET op_type == c.previous.typ
        c1 == parse_precedence(c, Precedence.Unary)
    IN CASE op_type = "Bang" -> emit_byte(c1, Op0("Not"))
         [] op_type = "Minus" -> emit_byte(c1, Op0("Negate"))
         [] OTHER -> [c1 EXCEPT !.abort = TRUE]

grouping(c) == consume(expression(c), "RightParen", "Expect ')' after expression")

named_variable(c, name, can_assign) ==
    LET r == resolve_local(c, name)
        g == identifier_constant(r.c, name)
        is_local == r.arg >= 0
        c1 == IF is_local THEN r.c ELSE g.c
        get_op == IF is_local THEN Op("GetLocal", r.arg) ELSE Op("GetGlobal", g.index)
        set_op == IF is_local THEN Op("SetLocal", r.arg) ELSE Op("SetGlobal", g.index)
        note(cc) == IF is_local
                    THEN [cc EXCEPT !.refs = @ \cup {[offset |-> code_len(cc.chunk),
                                                      name |-> name]}]
                    ELSE cc
    IN IF can_assign /\ parser_check(c1, "Equal")
       THEN LET c2 == expression(advance(c1)) IN emit_byte(note(c2), set_op)
       ELSE emit_byte(note(c1), get_op)

variable(c, can_assign) == named_variable(c, c.previous.lexeme, can_assign)

infix_loop(c, precedence) ==
    IF precedence <= get_rule(c.current.typ).precedence
    THEN LET c1 == advance(c)
         IN IF get_rule(c1.previous.typ).infix = "Binary"
            THEN infix_loop(binary(c1), precedence)
            ELSE [c1 EXCEPT !.abort = TRUE]
    ELSE c

parse_precedence(c, precedence) ==
    LET c1 == advance(c)
        can_assign == precedence <= Precedence.Assignment
        prefix == get_rule(c1.previous.typ).prefix
    IN IF prefix = "None" THEN parser_error(c1, "Expected prefix expression.")
       ELSE LET c2 == CASE prefix = "Grouping" -> grouping(c1)
                        [] prefix = "Unary" -> unary(c1)
                        [] prefix = "Number" -> number(c1)
                        [] prefix = "Str" -> string(c1)
                        [] prefix = "Literal" -> literal(c1)
                        [] prefix = "Variable" -> variable(c1, can_assign)
                c3 == infix_loop(c2, precedence)
            IN IF can_assign /\ parser_check(c3, "Equal")
               THEN parser_error(advance(c3), "Invalid assignment target.")
               ELSE c3

\* ------------------------------------------------- compiler: statements
is_global_scope(c) == c.scope_depth = GLOBAL_SCOPE

begin_scope(c) == [c EXCEPT !.scope_depth = @ + 1]

add_local(c, name) ==
    [c EXCEPT !.locals = Append(@, Local(name, UNINITIALIZED_SCOPE))]

\* declare_variable's loop, from the last local down: it stops at the first
\* initialized local of an enclosing scope and reports every same-named
\* local it passes.
already_exists(name) == "Variable with name " \o name \o " already exists in this scope."

RECURSIVE declare_scan(_, _, _)
declare_scan(c, i, name) ==
    IF i < 1 THEN c
    ELSE LET local == c.locals[i]
         IN IF local.depth # UNINITIALIZED_SCOPE /\ local.depth < c.scope_depth
            THEN c
            ELSE declare_scan(
                    IF local.name = name
                    THEN parser_error(c, already_exists(name))
                    ELSE c,
                    i - 1, name)

declare_variable(c) ==
    IF is_global_scope(c) THEN c
    ELSE add_local(declare_scan(c, Len(c.locals), c.previous.lexeme),
                   c.previous.lexeme)

parse_variable(c, error_message) ==
    LET c1 == declare_variable(consume(c, "Identifier", error_message))
    IN IF ~is_global_scope(c1) THEN [c |-> c1, index |-> 0]
       ELSE identifier_constant(c1, c1.previous.lexeme)

mark_initialized(c) ==
    IF c.locals = <<>> THEN [c EXCEPT !.abort = TRUE]
    ELSE [c EXCEPT !.locals[Len(c.locals)].depth = c.scope_depth]

define_variable(c, global) ==
    IF ~is_global_scope(c) THEN mark_initialized(c)
    ELSE emit_byte(c, Op("DefineGlobal", global))

var_declaration(c) ==
    LET g == parse_variable(c, "Expect variable name.")
        c1 == IF parser_check(g.c, "Equal") THEN expression(advance(g.c))
              ELSE emit_byte(g.c, Op0("Nil"))
        c2 == consume(c1, "SemiColon", "Expect ';' after variable declaration")
    IN define_variable(c2, g.index)

\* expression_statement, had it emitted a second Pop.
expression_statement_pops_twice(c) ==
    emit_byte(emit_byte(consume(expression(c), "SemiColon", "Expect ';' after expression."),
                        Op0("Pop")),
              Op0("Pop"))

expression_statement(c) ==
    emit_byte(consume(expression(c), "SemiColon", "Expect ';' after expression."),
              Op0("Pop"))

print_statement(c) ==
    emit_byte(consume(expression(c), "SemiColon", "Expect ';' after value."),
              Op0("Print"))

\* emit_jump returns code_len() - 1, the offset of the op just written.
emit_jump(c, byte) == emit_byte(c, byte)

is_jump(op) == op.op \in {"JumpIfFalse", "Jump"}

\* patch_jump, had it stored the distance to the target, not the target.
patch_jump_relative(c, offset) ==
    IF offset < 0 \/ offset >= code_len(c.chunk) \/ ~is_jump(read_op(c.chunk, offset))
    THEN [c EXCEPT !.abort = TRUE, !.patched = Append(@, offset)]
    ELSE [c EXCEPT !.chunk.code[offset + 1].arg = code_len(c.chunk) - offset,
                   !.patched = Append(@, offset)]

patch_jump(c, offset) ==
    LET jump == code_len(c.chunk)
    IN IF offset < 0 \/ offset >= code_len(c.chunk) \/ ~is_jump(read_op(c.chunk, offset))
       THEN [c EXCEPT !.abort = TRUE, !.patched = Append(@, offset)]
       ELSE [c EXCEPT !.chunk.code[offset + 1].arg = jump,
                      !.patched = Append(@, offset)]

\* if_statement up to the call of statement() for the then-arm.
if_statement_condition(c) ==
    LET c1 == consume(c, "LeftParen", "Expect '(' after 'if'.")
        c2 == consume(expression(c1), "RightParen", "Expect ')' after condition.")
        c3 == emit_jump(c2, Op("JumpIfFalse", 0))
    IN [c |-> emit_byte(c3, Op0("Pop")), then_jump |-> code_len(c3.chunk) - 1]

\* if_statement between the two arms, had it patched the JumpIfFalse before
\* emitting the Jump.
if_statement_else_early_patch(c, then_jump) ==
    LET c1 == emit_jump(patch_jump(c, then_jump), Op("Jump", 0))
        else_jump == code_len(c1.chunk) - 1
        c2 == emit_byte(c1, Op0("Pop"))
    IN [c |-> [c2 EXCEPT !.ifs = @ \cup {[jif |-> then_jump, jmp |-> else_jump,
                                           end |-> -1]}],
        else_jump |-> else_jump]

\* if_statement between the two arms, up to check(Else).
if_statement_else(c, then_jump) ==
    LET c1 == emit_jump(c, Op("Jump", 0))
        else_jump == code_len(c1.chunk) - 1
        c2 == emit_byte(patch_jump(c1, then_jump), Op0("Pop"))
    IN [c |-> [c2 EXCEPT !.ifs = @ \cup {[jif |-> then_jump, jmp |-> else_jump,
                                           end |-> -1]}],
        else_jump |-> else_jump]

\* if_statement's end, had it left the Jump as emit_jump wrote it.
if_statement_unpatched(c, else_jump) ==
    [c EXCEPT !.ifs = {IF r.jmp = else_jump
                       THEN [r EXCEPT !.end = code_len(c.chunk)]
                       ELSE r : r \in @}]

\* if_statement's last call: patch_jump(else_jump), at the end of the
\* statement.
if_statement_patch(c, else_jump) ==
    patch_jump([c EXCEPT !.ifs = {IF r.jmp = else_jump
                                  THEN [r EXCEPT !.end = code_len(c.chunk)]
                                  ELSE r : r \in @}],
               else_jump)

\* The locals end_scope's loop keeps (depth <= scope_depth); the code drops
\* this list and assigns clear_scope() instead.
kept_locals(locals, depth) == SelectSeq(locals, LAMBDA local : local.depth <= depth)

RECURSIVE take_while_below(_, _)
take_while_below(locals, depth) ==
    IF locals = <<>> \/ ~(Head(locals).depth < depth) THEN <<>>
    ELSE <<Head(locals)>> \o take_while_below(Tail(locals), depth)

clear_scope(c) == take_while_below(c.locals, c.scope_depth)

RECURSIVE emit_pops(_, _)
emit_pops(c, n) == IF n = 0 THEN c ELSE emit_pops(emit_byte(c, Op0("Pop")), n - 1)

end_scope(c) ==
    LET c1 == [c EXCEPT !.scope_depth = @ - 1]
        pops == Len(c1.locals) - Len(kept_locals(c1.locals, c1.scope_depth))
        c2 == emit_pops(c1, pops)
    IN [c2 EXCEPT !.locals = clear_scope(c2)]

SyncTokens == {"Class", "Fun", "Var", "For", "If", "While", "Print", "Return"}

RECURSIVE synchronize_loop(_)
synchronize_loop(c) ==
    IF c.current.typ = "Eof" THEN c
    ELSE IF c.previous.typ = "SemiColon" THEN c
    ELSE IF c.current.typ \in SyncTokens THEN c
    ELSE synchronize_loop(advance(c))

\* synchronize, had it cleared the error flag along with panic mode.
synchronize_clears_error(c) ==
    synchronize_loop([c EXCEPT !.panic_mode = FALSE, !.had_error = FALSE])

synchronize(c) == synchronize_loop([c EXCEPT !.panic_mode = FALSE])

\* Compiler::end
end(c) == emit_byte(c, Op0("Return"))

\* --------------------------------------------------------------------- vm
\* The Vm record: ip, stack, objects, globals, and the lines printed by the
\* current interpret call.  `result` is "" while run() is looping, then Ok,
\* RuntimeError, or Panic for a Rust panic (an expect() that failed);
\* `errline` is the line runtime_error printed, and `seen` is a history
\* field: for each offset run() has executed, the stack it found there.
GlobalsNew == [n \in {} |-> NilV]

\* HashMap::insert, had it kept an existing binding.
globals_insert_if_absent(globals, key, value) ==
    [n \in DOMAIN globals \cup {key} |-> IF n \in DOMAIN globals THEN globals[n] ELSE value]

globals_insert(globals, key, value) ==
    [n \in DOMAIN globals \cup {key} |-> IF n = key THEN value ELSE globals[n]]

stack_top(vm) == Len(vm.stack)

push(vm, value) == [vm EXCEPT !.stack = Append(@, value)]

\* pop() and peek(distance) panic on an index outside the stack.
can_pop(vm, n) == Len(vm.stack) >= n

pop(vm) == [vm EXCEPT !.stack = SubSeq(@, 1, Len(@) - 1)]

peek(vm, distance) == vm.stack[Len(vm.stack) - distance]

panic(vm) == [vm EXCEPT !.result = "Panic"]

\* reset_stack, had it cleared the stack only.
reset_stack_keeps_ip(vm) == [vm EXCEPT !.stack = <<>>]

reset_stack(vm) == [vm EXCEPT !.ip = 0, !.stack = <<>>]

\* runtime_error, had it returned without reset_stack().
runtime_error_keeps_stack(vm, message, chunk) ==
    [vm EXCEPT !.result = "RuntimeError", !.errline = get_line(chunk, vm.ip - 1)]

\* runtime_error reads the failing op's line, resets and returns.
runtime_error(vm, message, chunk) ==
    [reset_stack(vm) EXCEPT !.result = "RuntimeError",
                            !.errline = get_line(chunk, vm.ip - 1)]

\* f64 arithmetic on the integers that stand for the numbers; a quotient is
\* truncated and x / 0 is 0 (no property below reads a quotient).
arith(name, left, right) ==
    CASE name = "Greater" -> BoolV(left > right)
      [] name = "Less" -> BoolV(left < right)
      [] name = "Add" -> NumberV(left + right)
      [] name = "Subtract" -> NumberV(left - right)
      [] name = "Multiply" -> NumberV(left * right)
      [] name = "Divide" -> NumberV(IF right = 0 THEN 0 ELSE left \div right)

\* binary_op, had it checked the top operand only.
binary_op_checks_top(vm, name) ==
    IF ~can_pop(vm, 2) THEN [vm |-> panic(vm), err |-> ""]
    ELSE IF ~is_number(peek(vm, 0))
    THEN [vm |-> vm, err |-> "Operands must both be numbers."]
    ELSE LET right == peek(vm, 0).v
             left == peek(vm, 1).v
         IN [vm |-> push(pop(pop(vm)), arith(name, left, right)), err |-> ""]

\* binary_op: Ok(vm) or Err(message) as [vm, err].
binary_op(vm, name) ==
    IF ~can_pop(vm, 2) THEN [vm |-> panic(vm), err |-> ""]
    ELSE IF ~is_number(peek(vm, 0)) \/ ~is_number(peek(vm, 1))
    THEN [vm |-> vm, err |-> "Operands must both be numbers."]
    ELSE LET right == peek(vm, 0).v
             left == peek(vm, 1).v
         IN [vm |-> push(pop(pop(vm)), arith(name, left, right)), err |-> ""]

\* Vm::add, had its string arm put the top operand's text first.
add_reversed(vm) ==
    IF ~can_pop(vm, 2) THEN [vm |-> panic(vm), err |-> ""]
    ELSE LET b == peek(vm, 0)
             a == peek(vm, 1)
         IN IF a.t = "Obj" /\ b.t = "Obj"
            THEN LET ao == arena_get(vm.objects, a.v)
                     bo == arena_get(vm.objects, b.v)
                 IN IF ao.kind = "Str" /\ bo.kind = "Str"
                    THEN LET vm1 == [vm EXCEPT !.objects =
                                        arena_push(@, StrO(bo.text \o ao.text))]
                         IN [vm |-> push(vm1, ObjV(arena_len(vm1.objects) - 1)),
                             err |-> ""]
                    ELSE [vm |-> vm, err |-> "Operands must both be strings."]
            ELSE IF a.t = "Number" /\ b.t = "Number" THEN binary_op(vm, "Add")
            ELSE [vm |-> vm, err |-> "Operands must both be strings or numbers."]

\* Vm::add.  The string arm pushes the result without popping its operands.
add(vm) ==
    IF ~can_pop(vm, 2) THEN [vm |-> panic(vm), err |-> ""]
    ELSE LET b == peek(vm, 0)
             a == peek(vm, 1)
         IN IF a.t = "Obj" /\ b.t = "Obj"
            THEN LET ao == arena_get(vm.objects, a.v)
                     bo == arena_get(vm.objects, b.v)
                 IN IF ao.kind = "Str" /\ bo.kind = "Str"
                    THEN LET vm1 == [vm EXCEPT !.objects =
                                        arena_push(@, StrO(ao.text \o bo.text))]
                         IN [vm |-> push(vm1, ObjV(arena_len(vm1.objects) - 1)),
                             err |-> ""]
                    ELSE [vm |-> vm, err |-> "Operands must both be strings."]
            ELSE IF a.t = "Number" /\ b.t = "Number" THEN binary_op(vm, "Add")
            ELSE [vm |-> vm, err |-> "Operands must both be strings or numbers."]

\* Value equality, had it compared the payloads only.
value_eq_payload(first, second) == first.v = second.v

\* Value equality (impl PartialEq for Value): same variant, same payload.
\* The payload of an Obj is the arena index the compiler and the VM put in
\* it, so two objects are equal when they are the same arena entry.
value_eq(first, second) == first.t = second.t /\ first.v = second.v

\* The text Print writes.
display(vm, value) ==
    IF value.t = "Obj" THEN arena_get(vm.objects, value.v) ELSE value

global_name(vm, chunk, index) == arena_get(vm.objects, read_constant(chunk, index).v).text

or_error(r, chunk) == IF r.err = "" THEN r.vm ELSE runtime_error(r.vm, r.err, chunk)

\* run()'s arm for Op::GetGlobal.
get_global(vm, index, chunk) ==
    LET lexeme == global_name(vm, chunk, index)
    IN IF lexeme \in DOMAIN vm.globals THEN push(vm, vm.globals[lexeme])
       ELSE runtime_error(vm, "Undefined variable", chunk)

\* The arm for Op::SetGlobal, had it inserted before asking contains_key.
set_global_inserts_first(vm, index, chunk) ==
    LET lexeme == global_name(vm, chunk, index)
    IN IF ~can_pop(vm, 1) THEN panic(vm)
       ELSE LET vm1 == [vm EXCEPT !.globals = globals_insert(@, lexeme, peek(vm, 0))]
            IN IF lexeme \notin DOMAIN vm1.globals
               THEN runtime_error(vm1, "Undefined variable", chunk)
               ELSE vm1

\* run()'s arm for Op::SetGlobal.
set_global(vm, index, chunk) ==
    LET lexeme == global_name(vm, chunk, index)
    IN IF lexeme \notin DOMAIN vm.globals
       THEN runtime_error(vm, "Undefined variable", chunk)
       ELSE IF ~can_pop(vm, 1) THEN panic(vm)
       ELSE [vm EXCEPT !.globals = globals_insert(@, lexeme, peek(vm, 0))]

\* The four instructions whose arms are not in src/src/vm.rs, as the
\* specification of the VM describes them: GetLocal/SetLocal read and write
\* the stack slot directly, JumpIfFalse jumps on a falsey top of stack
\* without popping it, Jump always jumps; targets are absolute offsets.
exec_local_jump(vm, op) ==
    CASE op.op = "GetLocal" ->
            IF op.arg < Len(vm.stack) THEN push(vm, vm.stack[op.arg + 1]) ELSE panic(vm)
      [] op.op = "SetLocal" ->
            IF op.arg < Len(vm.stack)
            THEN [vm EXCEPT !.stack[op.arg + 1] = peek(vm, 0)]
            ELSE panic(vm)
      [] op.op = "JumpIfFalse" ->
            IF ~can_pop(vm, 1) THEN panic(vm)
            ELSE IF is_falsey(peek(vm, 0)) THEN [vm EXCEPT !.ip = op.arg] ELSE vm
      [] op.op = "Jump" -> [vm EXCEPT !.ip = op.arg]

\* One iteration of run()'s loop on the op at ip, after ip += 1.
exec(vm, op, chunk) ==
    CASE op.op = "Constant" -> push(vm, read_constant(chunk, op.arg))
      [] op.op = "Nil" -> push(vm, NilV)
      [] op.op = "True" -> push(vm, BoolV(TRUE))
      [] op.op = "False" -> push(vm, BoolV(FALSE))
      [] op.op = "Pop" -> IF can_pop(vm, 1) THEN pop(vm) ELSE panic(vm)
      [] op.op = "DefineGlobal" ->
            IF ~can_pop(vm, 1) THEN panic(vm)
            ELSE [pop(vm) EXCEPT !.globals =
                    globals_insert(@, global_name(vm, chunk, op.arg), peek(vm, 0))]
      [] op.op = "GetGlobal" -> get_global(vm, op.arg, chunk)
      [] op.op = "SetGlobal" -> set_global(vm, op.arg, chunk)
      [] op.op = "Equal" ->
            IF ~can_pop(vm, 2) THEN panic(vm)
            ELSE push(pop(pop(vm)), BoolV(value_eq(peek(vm, 1), peek(vm, 0))))
      [] op.op \in {"Greater", "Less", "Subtract", "Multiply", "Divide"} ->
            or_error(binary_op(vm, op.op), chunk)
      [] op.op = "Add" -> or_error(add(vm), chunk)
      [] op.op = "Not" ->
            IF ~can_pop(vm, 1) THEN panic(vm)
            ELSE push(pop(vm), BoolV(is_falsey(peek(vm, 0))))
      [] op.op = "Negate" ->
            IF ~can_pop(vm, 1) THEN panic(vm)
            ELSE IF ~is_number(peek(vm, 0))
            THEN runtime_error(vm, "Cannot negate a non-number.", chunk)
            ELSE push(pop(vm), NumberV(0 - peek(vm, 0).v))
      [] op.op = "Print" ->
            IF ~can_pop(vm, 1) THEN panic(vm)
            ELSE [pop(vm) EXCEPT !.output = Append(@, display(vm, peek(vm, 0)))]
      [] op.op = "Return" -> [vm EXCEPT !.result = "Ok"]
      [] OTHER -> exec_local_jump(vm, op)

\* read_op panics past the end of the code.
run_step(vm, chunk) ==
    IF vm.ip >= code_len(chunk) THEN panic(vm)
    ELSE exec([vm EXCEPT !.ip = @ + 1, !.seen = (vm.ip :> vm.stack) @@ @],
              read_op(chunk, vm.ip), chunk)

\* ----------------------------------------------------------------- inputs
\* Every token of a generated source is on line 1 unless a pool says so.
T(typ, lexeme) == Tok(typ, lexeme, 1)

LB == <<T("LeftBrace", "{")>>
RB == <<T("RightBrace", "}")>>
Ident(name) == <<T("Identifier", name)>>
Num(lexeme) == <<T("Number", lexeme)>>
Str(text) == <<T("Str", text)>>
VAR == <<T("Var", "var")>>
EQ == <<T("Equal", "=")>>
SEMI == <<T("SemiColon", ";")>>
PRINT == <<T("Print", "print")>>
LP == <<T("LeftParen", "(")>>
RP == <<T("RightParen", ")")>>
IF_ == <<T("If", "if")>>
ELSE_ == <<T("Else", "else")>>
TRUE_ == <<T("True", "true")>>
FALSE_ == <<T("False", "false")>>
NIL_ == <<T("Nil", "nil")>>
Bin(typ) == <<T(typ, "")>>
ERR == <<ErrorTok("Unterminated string.", "s", 1)>>

\* Each local of the pools is initialized with, and only ever assigned, the
\* number that tags its name.
Names == {"a", "b"}
TagLexeme(name) == IF name = "a" THEN "1" ELSE "2"

VarDecl(name) == VAR \o Ident(name) \o EQ \o Num(TagLexeme(name)) \o SEMI
PrintVar(name) == PRINT \o Ident(name) \o SEMI
Assign(name) == Ident(name) \o EQ \o Num(TagLexeme(name)) \o SEMI

\* Block programs: `{ interior }` where the interior is any brace-balanced
\* sequence of at most MaxPieces pieces.
Pieces == <<LB, RB, VarDecl("a"), VarDecl("b"), PrintVar("a"), Assign("a")>>

RECURSIVE PieceSeqs(_)
PieceSeqs(n) ==
    IF n = 0 THEN {<<>>}
    ELSE LET shorter == PieceSeqs(n - 1)
         IN shorter \cup {Append(s, i) : s \in {x \in shorter : Len(x) = n - 1},
                                          i \in 1..Len(Pieces)}

RECURSIVE Balanced(_, _)
Balanced(s, open) ==
    IF s = <<>> THEN open = 0
    ELSE IF Head(s) = 1 THEN Balanced(Tail(s), open + 1)
    ELSE IF Head(s) = 2 THEN open > 0 /\ Balanced(Tail(s), open - 1)
    ELSE Balanced(Tail(s), open)

RECURSIVE Flatten(_, _)
Flatten(items, s) ==
    IF s = <<>> THEN <<>> ELSE items[Head(s)] \o Flatten(items, Tail(s))

BlockPrograms ==
    {LB \o Flatten(Pieces, s) \o RB : s \in {x \in PieceSeqs(MaxPieces) : Balanced(x, 0)}}

\* Flat programs: at most MaxStmts statements of this list.
Stmts ==
    << VAR \o Ident("a") \o EQ \o Num("1") \o SEMI,
       VAR \o Ident("a") \o EQ \o Num("2") \o SEMI,
       VAR \o Ident("a") \o SEMI,
       VAR \o Ident("b") \o EQ \o Str("s") \o Bin("Plus") \o Str("t") \o SEMI,
       PRINT \o Ident("a") \o SEMI,
       Ident("a") \o EQ \o Num("3") \o SEMI,
       PRINT \o Num("1") \o Bin("Plus") \o Num("2") \o Bin("Star") \o Num("3") \o SEMI,
       PRINT \o LP \o Num("1") \o Bin("Plus") \o Num("2") \o RP \o Bin("Star") \o Num("3") \o SEMI,
       PRINT \o Num("1") \o Bin("Less") \o Num("2") \o Bin("EqualEqual") \o TRUE_ \o SEMI,
       PRINT \o Num("3") \o Bin("Minus") \o Num("2") \o Bin("Slash") \o Num("1") \o SEMI,
       PRINT \o Num("1") \o Bin("Greater") \o Num("2") \o Bin("BangEqual")
             \o Num("2") \o Bin("GreaterEqual") \o Num("1") \o SEMI,
       PRINT \o Num("1") \o Bin("LessEqual") \o Num("2") \o SEMI,
       PRINT \o Str("s") \o Bin("Plus") \o Str("t") \o SEMI,
       PRINT \o Str("s") \o Bin("EqualEqual") \o Str("s") \o SEMI,
       PRINT \o Num("1") \o Bin("Plus") \o Str("s") \o SEMI,
       PRINT \o Bin("Minus") \o NIL_ \o SEMI,
       PRINT \o Bin("Bang") \o Bin("Minus") \o Num("1") \o SEMI,
       IF_ \o LP \o TRUE_ \o RP \o PRINT \o Num("1") \o SEMI
           \o ELSE_ \o PRINT \o Num("2") \o SEMI,
       IF_ \o LP \o FALSE_ \o RP \o PRINT \o Num("1") \o SEMI,
       IF_ \o LP \o Ident("a") \o RP \o LB \o VarDecl("b") \o PrintVar("b") \o RB,
       LB \o VAR \o Ident("a") \o EQ \o Ident("a") \o SEMI \o RB,
       LB \o VarDecl("a") \o LB \o VAR \o Ident("a") \o EQ \o Ident("a") \o SEMI \o RB \o RB,
       PRINT \o SEMI,
       LP \o SEMI,
       Num("1") \o EQ \o Num("2") \o SEMI,
       PRINT \o ERR >>

RECURSIVE StmtSeqs(_)
StmtSeqs(n) ==
    IF n = 0 THEN {<<>>}
    ELSE LET shorter == StmtSeqs(n - 1)
         IN shorter \cup {Append(s, i) : s \in {x \in shorter : Len(x) = n - 1},
                                          i \in 1..Len(Stmts)}

FlatPrograms == {Flatten(Stmts, s) : s \in StmtSeqs(MaxStmts)}

\* Token soup: every sequence of at most MaxSoup of these tokens.
SoupTokens ==
    <<LB, RB, VAR, Ident("a"), EQ, Num("1"), SEMI, PRINT, LP, RP, Bin("Plus"),
      IF_, ELSE_, ERR>>

RECURSIVE SoupSeqs(_)
SoupSeqs(n) ==
    IF n = 0 THEN {<<>>}
    ELSE LET shorter == SoupSeqs(n - 1)
         IN shorter \cup {Append(s, i) : s \in {x \in shorter : Len(x) = n - 1},
                                          i \in 1..Len(SoupTokens)}

TokenSoup == {Flatten(SoupTokens, s) : s \in SoupSeqs(MaxSoup)}

\* Expression programs: `print x op y;`, `print -x;` and `print !x;` over one operand of
\* each kind, `print 1 op1 2 op2 3;` over every pair of binary operators,
\* and equalities of a concatenation.
Operands == {NIL_, TRUE_, FALSE_, Num("0"), Num("1"), Str("s"), Str("t")}

BinaryOps ==
    {"Plus", "Minus", "Star", "Slash", "EqualEqual", "BangEqual",
     "Greater", "GreaterEqual", "Less", "LessEqual"}

PairPrograms ==
    {PRINT \o x \o Bin(op) \o y \o SEMI : x \in Operands, y \in Operands, op \in BinaryOps}
        \cup {PRINT \o Bin(op) \o x \o SEMI : x \in Operands, op \in {"Minus", "Bang"}}

TriplePrograms ==
    {PRINT \o Num("1") \o Bin(op1) \o Num("2") \o Bin(op2) \o Num("3") \o SEMI :
        op1 \in BinaryOps, op2 \in BinaryOps}

ConcatPrograms ==
    { PRINT \o Str("s") \o Bin("Plus") \o Str("t") \o Bin("EqualEqual") \o Str("st") \o SEMI,
      PRINT \o Str("st") \o Bin("EqualEqual") \o Str("s") \o Bin("Plus") \o Str("t") \o SEMI,
      PRINT \o Str("s") \o Bin("Plus") \o Str("t") \o Bin("Plus") \o Str("s") \o SEMI,
      VAR \o Ident("b") \o EQ \o Str("s") \o SEMI
          \o PRINT \o Ident("b") \o Bin("EqualEqual") \o Ident("b") \o SEMI }

\* If programs: each kind of condition with and without else, nested ifs
\* (the else of the inner, of the outer, an else-if chain), and ifs among
\* block locals.
Conditions == {TRUE_, FALSE_, NIL_, Num("0"), Str("s")}

Print1 == PRINT \o Num("1") \o SEMI
Print2 == PRINT \o Num("2") \o SEMI
Print3 == PRINT \o Num("3") \o SEMI
If(c) == IF_ \o LP \o c \o RP

IfPrograms ==
    {If(c) \o Print1 \o Print3 : c \in Conditions}
        \cup {If(c) \o Print1 \o ELSE_ \o Print2 \o Print3 : c \in Conditions}
        \cup {If(c) \o If(d) \o Print1 \o ELSE_ \o Print2 \o Print3 :
                  c \in {TRUE_, FALSE_}, d \in {TRUE_, FALSE_}}
        \cup {If(c) \o LB \o If(d) \o Print1 \o RB \o ELSE_ \o Print2 \o Print3 :
                  c \in {TRUE_, FALSE_}, d \in {TRUE_, FALSE_}}
        \cup {If(c) \o Print1 \o ELSE_ \o If(d) \o Print2 \o ELSE_ \o Print3 :
                  c \in {TRUE_, FALSE_}, d \in {TRUE_, FALSE_}}
        \cup {LB \o VarDecl("a") \o If(c) \o LB \o VarDecl("b") \o PrintVar("a") \o RB
                  \o ELSE_ \o PrintVar("a") \o PrintVar("a") \o RB : c \in Conditions}
        \cup {If(c) \o LB \o VarDecl("a") \o LB \o RB \o RB \o Print3 : c \in {TRUE_, FALSE_}}

\* Sources given as characters, with strings that are closed or not: every
\* sequence of at most MaxChars characters of StringAlphabet, and two
\* statements that end in an open string.  None holds a `/` or a `.`, so
\* the scanner returns normally on each of them.
StringAlphabet == {"\"", "s", "\n"}

RECURSIVE StringSeqs(_)
StringSeqs(n) ==
    IF n = 0 THEN {<<>>}
    ELSE LET shorter == StringSeqs(n - 1)
         IN shorter \cup {Append(x, ch) : x \in {y \in shorter : Len(y) = n - 1},
                                           ch \in StringAlphabet}

PrintOpenString == <<"p", "r", "i", "n", "t", " ", "\"", "s">>
VarOpenString == <<"v", "a", "r", " ", "a", "=", "\"", "s", ";">>

StringTexts == StringSeqs(MaxChars) \cup {PrintOpenString, VarOpenString}

StringPrograms == {scan_source(source) : source \in StringTexts}

\* The sources a file can hold.
Sources ==
    BlockPrograms \cup FlatPrograms \cup TokenSoup
        \cup PairPrograms \cup TriplePrograms \cup ConcatPrograms \cup IfPrograms
        \cup StringPrograms

\* The lines a REPL session is fed.
ReplLines ==
    { VAR \o Ident("a") \o EQ \o Num("1") \o SEMI,
      VAR \o Ident("b") \o EQ \o Str("s") \o Bin("Plus") \o Str("t") \o SEMI,
      Ident("a") \o EQ \o Num("2") \o SEMI,
      PRINT \o Ident("a") \o SEMI,
      PRINT \o Ident("b") \o Bin("Plus") \o Ident("b") \o SEMI,
      VAR \o Ident("a") \o EQ \o Num("3") \o SEMI \o PRINT \o Bin("Minus") \o NIL_ \o SEMI,
      Num("1") \o Bin("Plus") \o Num("2"),
      LB \o VarDecl("a") \o LB \o RB \o RB,
      VAR \o SEMI }

\* ------------------------------------------------------------------ state
VARIABLES
    mode,        \* main's choice: "file" (run_file) or "repl"
    lines_read,  \* REPL lines interpreted so far
    pc,          \* "idle", "compile", "run", "returned", "exit" or "panic"
    compiler,    \* the Compiler of the current interpret call
    frames,      \* the compiler's call stack, innermost first
    scopes,      \* history: per open block, the locals at begin_scope and
                 \* the names declared in the block since
    vm,          \* the Vm
    scanner_run, \* a Scanner on its own: the scanner and the tokens
                 \* scan_token has returned so far
    chunk_run,   \* a Chunk on its own: the chunk and the (byte, line) of
                 \* each write so far
    arena_run    \* an Arena on its own: the arena and the names of the
                 \* calls made on it so far

vars ==
    <<mode, lines_read, pc, compiler, frames, scopes, vm,
      scanner_run, chunk_run, arena_run>>

\* The scanner, the chunk and the arena that are run on their own
\* (ScannerSpec, ChunkSpec, ArenaSpec); the interpreter leaves them alone.
units == <<scanner_run, chunk_run, arena_run>>

ScannerRun(sc, returned) == [scanner |-> sc, returned |-> returned]
ChunkRun(chunk, written) == [chunk |-> chunk, written |-> written]
ArenaRun(arena, calls) == [arena |-> arena, calls |-> calls]

VmNew ==
    [ip |-> 0, stack |-> <<>>, objects |-> ArenaNew, globals |-> GlobalsNew,
     output |-> <<>>, result |-> "", errline |-> 0, seen |-> [o \in {} |-> <<>>]]

Frame(fn, n) == [fn |-> fn, n |-> n]

Init ==
    /\ mode \in {"file", "repl"}
    /\ lines_read = 0
    /\ pc = "idle"
    /\ compiler = CompilerNew(<<>>, ArenaNew)
    /\ frames = <<>>
    /\ scopes = <<>>
    /\ vm = VmNew
    /\ scanner_run = ScannerRun(ScannerNew(<<>>), <<>>)
    /\ chunk_run = ChunkRun(ChunkNew, <<>>)
    /\ arena_run = ArenaRun(ArenaNew, <<>>)

\* The compiler moved to c with call stack fs; the arena it writes is the
\* VM's.  A Rust panic ends the process.
Compiled(c, fs) ==
    /\ compiler' = c
    /\ vm' = [vm EXCEPT !.objects = c.objects]
    /\ frames' = fs
    /\ pc' = IF c.abort THEN "panic" ELSE "compile"
    /\ UNCHANGED <<mode, lines_read, units>>

Running(fn) == pc = "compile" /\ frames # <<>> /\ Head(frames).fn = fn

\* Vm::interpret, up to the call of compile(): a compiler over the source
\* and the VM's arena.  run_file reads one source, repl one line at a time.
interpret ==
    /\ pc = "idle"
    /\ mode = "repl" => lines_read < MaxLines
    /\ \E source \in (IF mode = "file" THEN Sources ELSE ReplLines) :
          compiler' = CompilerNew(source, vm.objects)
    /\ frames' = <<Frame("compile", 0)>>
    /\ pc' = "compile"
    /\ vm' = [vm EXCEPT !.result = "", !.output = <<>>, !.errline = 0,
                        !.seen = [o \in {} |-> <<>>]]
    /\ UNCHANGED <<mode, lines_read, scopes, units>>

\* Compiler::compile: parser.reset(), advance().
compile ==
    /\ Running("compile")
    /\ Compiled(advance([compiler EXCEPT !.had_error = FALSE, !.panic_mode = FALSE]),
                <<Frame("compile_loop", 0)>>)
    /\ UNCHANGED scopes

\* compile's loop: while !self.check(Eof) { self.declaration() }
compile_loop ==
    /\ Running("compile_loop")
    /\ IF parser_check(compiler, "Eof")
       THEN Compiled(advance(compiler), <<Frame("end", 0)>>)
       ELSE Compiled(compiler, <<Frame("declaration", 0)>> \o frames)
    /\ UNCHANGED scopes

\* compile's tail: end(), then Err(()) if had_error; interpret returns
\* CompileError or goes on to run(chunk).
compile_end ==
    /\ Running("end")
    /\ LET c == end(compiler)
       IN /\ compiler' = c
          /\ frames' = <<>>
          /\ pc' = IF c.abort THEN "panic"
                   ELSE IF c.had_error THEN "returned" ELSE "run"
          /\ vm' = [vm EXCEPT !.objects = c.objects,
                              !.result = IF c.had_error THEN "CompileError" ELSE ""]
    /\ UNCHANGED <<mode, lines_read, scopes, units>>

\* The frame of declaration's tail remembers, as history, how many tokens
\* were unread when the declaration began.
declaration ==
    /\ Running("declaration")
    /\ IF parser_check(compiler, "Var")
       THEN Compiled(advance(compiler),
                     <<Frame("var_declaration", 0),
                       Frame("declaration_end", unread(compiler))>> \o Tail(frames))
       ELSE Compiled(compiler,
                     <<Frame("statement", 0),
                       Frame("declaration_end", unread(compiler))>> \o Tail(frames))
    /\ UNCHANGED scopes

\* declaration's tail: if self.parser.panic_mode { self.synchronize() }
declaration_end ==
    /\ Running("declaration_end")
    /\ Compiled(IF compiler.panic_mode THEN synchronize(compiler) ELSE compiler,
                Tail(frames))
    /\ UNCHANGED scopes

\* The name var_declaration declares: the lexeme left in `previous` by
\* parse_variable's consume.
declared_name(c) == consume(c, "Identifier", "Expect variable name.").previous.lexeme

var_declaration_step ==
    /\ Running("var_declaration")
    /\ Compiled(var_declaration(compiler), Tail(frames))
    /\ scopes' = IF is_global_scope(compiler) THEN scopes
                 ELSE [scopes EXCEPT ![Len(scopes)].declared =
                          Append(@, declared_name(compiler))]

statement ==
    /\ Running("statement")
    /\ CASE parser_check(compiler, "Print") ->
              /\ Compiled(advance(compiler), <<Frame("print_statement", 0)>> \o Tail(frames))
              /\ UNCHANGED scopes
         [] parser_check(compiler, "LeftBrace") ->
              /\ Compiled(begin_scope(advance(compiler)),
                          <<Frame("block", 0), Frame("end_scope", 0)>> \o Tail(frames))
              /\ scopes' = Append(scopes, [locals |-> compiler.locals, declared |-> <<>>])
         [] parser_check(compiler, "If") ->
              /\ Compiled(advance(compiler), <<Frame("if_statement", 0)>> \o Tail(frames))
              /\ UNCHANGED scopes
         [] OTHER ->
              /\ Compiled(compiler, <<Frame("expression_statement", 0)>> \o Tail(frames))
              /\ UNCHANGED scopes

print_statement_step ==
    /\ Running("print_statement")
    /\ Compiled(print_statement(compiler), Tail(frames))
    /\ UNCHANGED scopes

expression_statement_step ==
    /\ Running("expression_statement")
    /\ Compiled(expression_statement(compiler), Tail(frames))
    /\ UNCHANGED scopes

\* block's loop and its closing consume.
block ==
    /\ Running("block")
    /\ IF ~parser_check(compiler, "RightBrace") /\ ~parser_check(compiler, "Eof")
       THEN Compiled(compiler, <<Frame("declaration", 0)>> \o frames)
       ELSE Compiled(consume(compiler, "RightBrace", "Expect '}' after block."),
                     Tail(frames))
    /\ UNCHANGED scopes

end_scope_step ==
    /\ Running("end_scope")
    /\ Compiled(end_scope(compiler), Tail(frames))
    /\ scopes' = SubSeq(scopes, 1, Len(scopes) - 1)

\* if_statement up to the then-arm's statement().
if_statement ==
    /\ Running("if_statement")
    /\ LET r == if_statement_condition(compiler)
       IN Compiled(r.c, <<Frame("statement", 0), Frame("if_statement_else", r.then_jump)>>
                            \o Tail(frames))
    /\ UNCHANGED scopes

\* if_statement from emit_jump(Jump) to the else-arm: with no `else` the
\* function ends here with patch_jump(else_jump).
if_statement_else_step ==
    /\ Running("if_statement_else")
    /\ LET r == if_statement_else(compiler, Head(frames).n)
       IN IF parser_check(r.c, "Else")
          THEN Compiled(advance(r.c),
                        <<Frame("statement", 0), Frame("if_statement_end", r.else_jump)>>
                            \o Tail(frames))
          ELSE Compiled(if_statement_patch(r.c, r.else_jump), Tail(frames))
    /\ UNCHANGED scopes

if_statement_end ==
    /\ Running("if_statement_end")
    /\ Compiled(if_statement_patch(compiler, Head(frames).n), Tail(frames))
    /\ UNCHANGED scopes

\* One iteration of Vm::run's loop.
run ==
    /\ pc = "run"
    /\ LET v == run_step(vm, compiler.chunk)
       IN /\ vm' = v
          /\ pc' = CASE v.result = "" -> "run"
                     [] v.result = "Panic" -> "panic"
                     [] OTHER -> "returned"
    /\ UNCHANGED <<mode, lines_read, compiler, frames, scopes, units>>

\* repl's loop after interpret(): reset_stack(), prompt, next line.
repl ==
    /\ pc = "returned"
    /\ mode = "repl"
    /\ vm' = reset_stack(vm)
    /\ lines_read' = lines_read + 1
    /\ pc' = "idle"
    /\ UNCHANGED <<mode, compiler, frames, scopes, units>>

\* repl's exits: end of input, or q.
repl_quit ==
    /\ pc = "idle"
    /\ mode = "repl"
    /\ pc' = "exit"
    /\ UNCHANGED <<mode, lines_read, compiler, frames, scopes, vm, units>>

\* run_file returns interpret's result and main exits with it.
run_file ==
    /\ pc = "returned"
    /\ mode = "file"
    /\ pc' = "exit"
    /\ UNCHANGED <<mode, lines_read, compiler, frames, scopes, vm, units>>

Next ==
    \/ interpret
    \/ compile
    \/ compile_loop
    \/ compile_end
    \/ declaration
    \/ declaration_end
    \/ var_declaration_step
    \/ statement
    \/ print_statement_step
    \/ expression_statement_step
    \/ block
    \/ end_scope_step
    \/ if_statement
    \/ if_statement_else_step
    \/ if_statement_end
    \/ run
    \/ repl
    \/ repl_quit
    \/ run_file

Spec == Init /\ [][Next]_vars

\* --------------------------------------------------- the chunk on its own
\* Any sequence of at most MaxWrites calls of write(byte, line) on a new
\* chunk, with lines in 1..MaxLine; the interpreter stays idle.
idle ==
    /\ mode = "file"
    /\ lines_read = 0
    /\ pc = "idle"
    /\ compiler = CompilerNew(<<>>, ArenaNew)
    /\ frames = <<>>
    /\ scopes = <<>>
    /\ vm = VmNew

interpreter == <<mode, lines_read, pc, compiler, frames, scopes, vm>>

WriteOps == {Op0("Nil"), Op0("Pop"), Op("Constant", 1)}

ChunkInit ==
    /\ idle
    /\ scanner_run = ScannerRun(ScannerNew(<<>>), <<>>)
    /\ chunk_run = ChunkRun(ChunkNew, <<>>)
    /\ arena_run = ArenaRun(ArenaNew, <<>>)

chunk_write ==
    /\ Len(chunk_run.written) < MaxWrites
    /\ \E byte \in WriteOps, line \in 1..MaxLine :
          chunk_run' = ChunkRun(write(chunk_run.chunk, byte, line),
                                Append(chunk_run.written, [byte |-> byte, line |-> line]))
    /\ UNCHANGED <<interpreter, scanner_run, arena_run>>

ChunkNext == chunk_write

ChunkSpec == ChunkInit /\ [][ChunkNext]_vars

\* ------------------------------------------------- the scanner on its own
\* scan_token called again and again on one source, until it has returned
\* Eof twice or panicked.  The sources: every sequence of at most MaxChars
\* characters of ScanAlphabet; every keyword, each of its proper prefixes
\* and the keyword followed by one more character; and a few numbers.
ScanAlphabet == {"1", ".", "/", "\n", " ", "\"", "a"}

RECURSIVE CharSeqs(_)
CharSeqs(n) ==
    IF n = 0 THEN {<<>>}
    ELSE LET shorter == CharSeqs(n - 1)
         IN shorter \cup {Append(x, ch) : x \in {y \in shorter : Len(y) = n - 1},
                                           ch \in ScanAlphabet}

KeywordTexts ==
    { <<"a", "n", "d">>, <<"c", "a", "s", "e">>, <<"c", "l", "a", "s", "s">>,
      <<"d", "e", "f", "a", "u", "l", "t">>, <<"e", "l", "s", "e">>,
      <<"f", "a", "l", "s", "e">>, <<"f", "o", "r">>, <<"f", "u", "n">>, <<"i", "f">>,
      <<"n", "i", "l">>, <<"o", "r">>, <<"p", "r", "i", "n", "t">>,
      <<"r", "e", "t", "u", "r", "n">>, <<"s", "u", "p", "e", "r">>,
      <<"s", "w", "i", "t", "c", "h">>, <<"t", "h", "i", "s">>, <<"t", "r", "u", "e">>,
      <<"v", "a", "l">>, <<"v", "a", "r">>, <<"w", "h", "i", "l", "e">> }

IdentifierTexts ==
    KeywordTexts
        \cup UNION {{SubSeq(k, 1, n) : n \in 1..Len(k)} : k \in KeywordTexts}
        \cup {Append(k, ch) : k \in KeywordTexts, ch \in {"s", "f", "y", "1"}}
        \cup {<<"x">>, <<"a", "1">>, <<"v", "a", "r", " ", "v", "a", "r", "s">>}

NumberTexts ==
    { <<"1", "2", ".", "5">>, <<"1", "2", ".">>, <<".", "5">>, <<"1", "2", ".", ";">>,
      <<"1", "2", ".", "5", ".", "5">>, <<"1", ".", ".", "5">>, <<"1", "2", ".", "a">> }

Texts == CharSeqs(MaxChars) \cup IdentifierTexts \cup NumberTexts

ScannerInit ==
    /\ idle
    /\ \E source \in Texts : scanner_run = ScannerRun(ScannerNew(source), <<>>)
    /\ chunk_run = ChunkRun(ChunkNew, <<>>)
    /\ arena_run = ArenaRun(ArenaNew, <<>>)

eofs(returned) == Cardinality({i \in 1..Len(returned) : returned[i].typ = "Eof"})

scanner_scan ==
    /\ ~scanner_run.scanner.abort
    /\ eofs(scanner_run.returned) < 2
    /\ LET r == scanner_scan_token(scanner_run.scanner)
       IN scanner_run' = ScannerRun(r.sc, IF r.sc.abort THEN scanner_run.returned
                                          ELSE Append(scanner_run.returned, r.token))
    /\ UNCHANGED <<interpreter, chunk_run, arena_run>>

\* The compiler as running code: while compile() is on the call stack the
\* process keeps taking steps.  This is weak fairness of Next with its
\* enabling condition during a compile written out as pc = "compile" (every
\* function on the compiler's call stack has a step that can be taken).
FairSpec == Spec /\ ([]<>(pc # "compile") \/ []<><<Next>>_vars)

ScannerNext == scanner_scan

ScannerSpec == ScannerInit /\ [][ScannerNext]_vars

\* --------------------------------------------------- the arena on its own
\* Any interleaving of at most MaxCalls calls of push(item) and clean() on a
\* new arena; the interpreter stays idle.
ArenaItems == {StrO("s"), StrO("t")}

ArenaInit ==
    /\ idle
    /\ scanner_run = ScannerRun(ScannerNew(<<>>), <<>>)
    /\ chunk_run = ChunkRun(ChunkNew, <<>>)
    /\ arena_run = ArenaRun(ArenaNew, <<>>)

arena_run_push ==
    /\ Len(arena_run.calls) < MaxCalls
    /\ \E item \in ArenaItems :
          arena_run' = ArenaRun(arena_push(arena_run.arena, item),
                                Append(arena_run.calls, "push"))
    /\ UNCHANGED <<interpreter, scanner_run, chunk_run>>

arena_run_clean ==
    /\ Len(arena_run.calls) < MaxCalls
    /\ arena_run' = ArenaRun(arena_clean(arena_run.arena),
                             Append(arena_run.calls, "clean"))
    /\ UNCHANGED <<interpreter, scanner_run, chunk_run>>

ArenaNext == arena_run_push \/ arena_run_clean

ArenaSpec == ArenaInit /\ [][ArenaNext]_vars

\* ------------------------------------------------------------- properties
\* The instruction run() is about to execute.
at_op == read_op(compiler.chunk, vm.ip)

fetching == pc = "run" /\ vm.ip < code_len(compiler.chunk)

emitted(name) == \E i \in 1..code_len(compiler.chunk) : compiler.chunk.code[i].op = name

\* A step that leaves the VM's ip, stack and globals alone.
vm_untouched ==
    /\ vm'.ip = vm.ip
    /\ vm'.stack = vm.stack
    /\ vm'.globals = vm.globals

\* C1: once the compiler has reported any error, interpret never reaches
\* run() and returns CompileError, and no step of the compile phase changes
\* the VM's ip, stack or globals - so they are what they were before the
\* call.
C1_CompileErrorExecutesNothing ==
    /\ [](compiler.reported # <<>> =>
             /\ compiler.had_error
             /\ pc # "run"
             /\ pc = "returned" => vm.result = "CompileError")
    /\ [][(pc \in {"idle", "compile"} /\ pc' # "exit") => (vm_untouched)]_vars

\* An error was reported, synchronize recovered, a later declaration
\* compiled cleanly (its GetGlobal is in the chunk), and interpret returned.
C1_Witness ==
    /\ pc = "returned"
    /\ vm.result = "CompileError"
    /\ ~compiler.panic_mode
    /\ Len(compiler.reported) = 1
    /\ emitted("GetGlobal")

run_advances == pc' = "run" /\ vm'.ip > vm.ip

run_returns == pc' = "returned" /\ vm'.result \in {"Ok", "RuntimeError"}

\* C2: run() on a compiled chunk starts at ip = 0 with an empty stack, every
\* jump it executes targets a later offset, and every iteration either moves
\* ip strictly forward inside the chunk or ends the loop with Ok or
\* RuntimeError, so it ends within code_len iterations and executes no
\* instruction twice.
C2_RunTerminatesIpIncreases ==
    /\ [](pc = "run" => vm.ip < code_len(compiler.chunk))
    /\ []((fetching /\ is_jump(at_op)) => at_op.arg > vm.ip)
    /\ [][pc = "compile" /\ pc' = "run" => vm'.ip = 0 /\ vm'.stack = <<>>]_vars
    /\ [][pc = "run" => (run_advances \/ run_returns)]_vars

\* A run that took an if statement's jumps and returned Ok.
C2_Witness ==
    /\ pc = "returned"
    /\ vm.result = "Ok"
    /\ emitted("Jump")
    /\ vm.output # <<>>

error_reset ==
    /\ pc' = "returned"
    /\ vm'.stack = <<>>
    /\ vm'.ip = 0
    /\ vm'.globals = vm.globals
    /\ vm'.objects = vm.objects

\* C3: the iteration of run() that raises a runtime error leaves the stack
\* empty and ip = 0, and leaves the globals and the arena as they were
\* before the failing instruction.
C3_RuntimeErrorResets ==
    [][(pc = "run" /\ vm'.result = "RuntimeError") => (error_reset)]_vars

\* A runtime error raised with values on the stack and a global bound.
C3_Witness ==
    /\ pc = "returned"
    /\ vm.result = "RuntimeError"
    /\ DOMAIN vm.globals # {}
    /\ vm.stack = <<>>
    /\ vm.ip = 0

arena_kept ==
    \A i \in 0..(arena_len(vm.objects) - 1) :
        /\ i < arena_len(vm'.objects)
        /\ arena_get(vm'.objects, i) = arena_get(vm.objects, i)

\* C4: in the REPL every line starts with ip = 0 and an empty stack; only an
\* executed instruction changes the globals, and none removes a binding, so
\* the bindings of earlier lines reach the next line whatever the line's
\* outcome; every arena index issued so far keeps resolving to its object.
C4_ReplKeepsGlobalsResetsStack ==
    /\ [](mode = "repl" /\ pc = "idle" => vm.ip = 0 /\ vm.stack = <<>>)
    /\ [][pc # "run" \/ vm'.result \in {"Ok", "RuntimeError"} =>
             vm'.globals = vm.globals]_vars
    /\ [][DOMAIN vm.globals \subseteq DOMAIN vm'.globals]_vars
    /\ [][(arena_kept)]_vars

\* The prompt after a second line that ended in a runtime error, with the
\* string-valued global of the first line still bound.
C4_Witness ==
    /\ mode = "repl"
    /\ pc = "idle"
    /\ lines_read >= 2
    /\ vm.result = "RuntimeError"
    /\ \E n \in DOMAIN vm.globals : vm.globals[n].t = "Obj"

\* What the instruction at ip needs of the stack: the number of values it
\* pops or peeks, and for a local instruction a slot below the height.
stack_need(op) ==
    CASE op.op \in {"Equal", "Greater", "Less", "Add", "Subtract", "Multiply", "Divide"} -> 2
      [] op.op \in {"Pop", "DefineGlobal", "Not", "Negate", "Print", "JumpIfFalse"} -> 1
      [] op.op = "SetGlobal" ->
            IF global_name(vm, compiler.chunk, op.arg) \in DOMAIN vm.globals THEN 1 ELSE 0
      [] op.op \in {"GetLocal", "SetLocal"} -> op.arg + 1
      [] OTHER -> 0

\* C5: no instruction of a compiled chunk pops or peeks an empty stack or
\* addresses a local slot at or above the stack height; the VM never aborts.
C5_NoStackUnderflow ==
    /\ fetching => Len(vm.stack) >= stack_need(at_op)
    /\ pc # "panic"
    /\ vm.result # "Panic"

\* A chunk with block locals and expression statements ran to Return.
C5_Witness ==
    /\ pc = "returned"
    /\ vm.result = "Ok"
    /\ emitted("GetLocal")
    /\ emitted("SetLocal")
    /\ emitted("Pop")

\* A source that keeps the pools' discipline: every variable is declared
\* with, and only ever assigned, the number that tags its name.
tag(name) == parse_number(TagLexeme(name))

tagged(tokens) ==
    \A i \in 1..Len(tokens) :
        /\ tokens[i].typ = "Var" =>
              /\ i + 2 <= Len(tokens)
              /\ tokens[i + 1].typ = "Identifier"
              /\ tokens[i + 2].typ = "Equal"
        /\ tokens[i].typ = "Equal" =>
              /\ 1 < i
              /\ i + 2 <= Len(tokens)
              /\ tokens[i - 1].typ = "Identifier"
              /\ tokens[i + 1].typ = "Number"
              /\ tokens[i + 1].lexeme = TagLexeme(tokens[i - 1].lexeme)
              /\ tokens[i + 2].typ = "SemiColon"

\* The variable the compiler resolved when it emitted the local
\* instruction at an offset.
ref_name(offset) == (CHOOSE r \in compiler.refs : r.offset = offset).name

\* C6: when run() executes a GetLocal or SetLocal the compiler emitted for
\* a variable, the addressed stack slot is the one that holds that
\* variable: in a tagged source it holds the number tagging the name.
C6_LocalSlotHoldsItsVariable ==
    (fetching /\ at_op.op \in {"GetLocal", "SetLocal"} /\ tagged(compiler.tokens)) =>
        /\ at_op.arg < Len(vm.stack)
        /\ vm.stack[at_op.arg + 1] = NumberV(tag(ref_name(vm.ip)))

\* The names declared in the open blocks, outermost block first.
RECURSIVE env(_)
env(ss) == IF ss = <<>> THEN <<>> ELSE Head(ss).declared \o env(Tail(ss))

\* C7: between statements of an error-free compile, a name resolves to a
\* local exactly when an open block declares it, and then to the innermost
\* (latest) such declaration; otherwise it is left to a global lookup.
C7_ResolvesInnermostDeclaration ==
    (pc = "compile" /\ compiler.reported = <<>>) =>
        \A name \in Names :
            LET declared == {i \in 1..Len(env(scopes)) : env(scopes)[i] = name}
                index == resolve_index(compiler.locals, name)
            IN /\ declared = {} <=> index < 0
               /\ \A i \in declared : i <= index + 1

closes_block == Running("end_scope")

locals_restored == compiler'.locals = scopes[Len(scopes)].locals

\* C8: end_scope leaves the locals list exactly as it was when the block
\* was opened.
C8_EndScopeRestoresLocals == [][closes_block => (locals_restored)]_vars

pops_declared ==
    /\ code_len(compiler'.chunk) = code_len(compiler.chunk) + Len(scopes[Len(scopes)].declared)
    /\ \A i \in (code_len(compiler.chunk) + 1)..code_len(compiler'.chunk) :
          compiler'.chunk.code[i].op = "Pop"

\* C9: end_scope emits exactly one Pop for each local declared in the
\* block it closes, and nothing else.
C9_EndScopePopsDeclared == [][closes_block => (pops_declared)]_vars

\* `var x = x` inside a block.
self_initializer(tokens) ==
    \E i \in 1..Len(tokens) :
        /\ i + 3 <= Len(tokens)
        /\ tokens[i].typ = "Var"
        /\ tokens[i + 1].typ = "Identifier"
        /\ tokens[i + 2].typ = "Equal"
        /\ tokens[i + 3].typ = "Identifier"
        /\ tokens[i + 3].lexeme = tokens[i + 1].lexeme
        /\ Cardinality({j \in 1..(i - 1) : tokens[j].typ = "LeftBrace"})
              > Cardinality({j \in 1..(i - 1) : tokens[j].typ = "RightBrace"})

\* C10: a source in which a block's declaration reads its own variable in
\* its initializer never runs: interpret returns CompileError, with an
\* error reported.
C10_SelfInitializerIsCompileError ==
    self_initializer(compiler.tokens) =>
        /\ pc # "run"
        /\ pc = "returned" => (vm.result = "CompileError" /\ compiler.reported # <<>>)

\* The self-initializer error was the only one reported, in a block nested
\* in a block that declares the same name.
C10_Witness ==
    /\ pc = "returned"
    /\ vm.result = "CompileError"
    /\ compiler.reported = <<[msg |-> "Can't read local variable in its own initializer.",
                              panicking |-> FALSE]>>
    /\ Cardinality({j \in 1..Len(compiler.tokens) : compiler.tokens[j].typ = "Var"}) = 2

declares_local == Running("var_declaration") /\ ~is_global_scope(compiler)

\* The declaration being compiled repeats a name of the block it is in.
redeclares == \E i \in 1..Len(scopes[Len(scopes)].declared) :
                  scopes[Len(scopes)].declared[i] = declared_name(compiler)

redeclaration_reported ==
    \E i \in 1..Len(compiler'.reported) :
        compiler'.reported[i].msg = already_exists(declared_name(compiler))

local_added ==
    /\ Len(compiler'.locals) = Len(compiler.locals) + 1
    /\ compiler'.locals[Len(compiler'.locals)].name = declared_name(compiler)

\* C11: a declaration inside a block, reached without an earlier error,
\* reports "already exists" exactly when the same block already declares
\* the name (a declaration of the name in an enclosing block only is no
\* error), and in every case adds a new local.
C11_RedeclarationIsError ==
    [][(declares_local /\ compiler.reported = <<>>) =>
          ((redeclaration_reported <=> redeclares) /\ local_added)]_vars

truthy(value) == ~is_falsey(value)

\* The if statements whose JumpIfFalse run() has executed and left behind.
ifs_decided == {r \in compiler.ifs : r.jif \in DOMAIN vm.seen /\ r.jif + 1 # vm.ip
                                      /\ \E o \in DOMAIN vm.seen : o > r.jif}

\* For an if statement whose JumpIfFalse found `cond` on top of a stack of
\* height h: the then-arm is offsets jif+2 .. jmp-1 behind the Pop at jif+1,
\* the else-arm is offsets jmp+2 .. end-1 behind the Pop at jmp+1.
one_arm(r) ==
    LET cond == vm.seen[r.jif][Len(vm.seen[r.jif])]
        h == Len(vm.seen[r.jif])
        ran(o) == o \in DOMAIN vm.seen
    IN /\ truthy(cond) =>
             /\ ran(r.jif + 1)
             /\ \A o \in (r.jmp + 1)..(r.end - 1) : ~ran(o)
             /\ ran(r.jif + 2) => vm.seen[r.jif + 2] = SubSeq(vm.seen[r.jif], 1, h - 1)
       /\ is_falsey(cond) =>
             /\ ran(r.jmp + 1)
             /\ \A o \in (r.jif + 1)..r.jmp : ~ran(o)
             /\ ran(r.jmp + 2) => vm.seen[r.jmp + 2] = SubSeq(vm.seen[r.jif], 1, h - 1)
       /\ ran(r.end) => Len(vm.seen[r.end]) = h - 1

\* C12: the code of an if statement runs exactly one arm, the then-arm on a
\* truthy condition and otherwise the else-arm, and pops the condition
\* exactly once on either path: each arm starts on the stack as it was
\* before the condition, and the statement ends at the height the stack had
\* before the condition.
C12_IfRunsOneArmPopsOnce ==
    pc \in {"run", "returned"} => \A r \in ifs_decided : one_arm(r)

\* C13: in a compiled if statement the JumpIfFalse operand is the offset
\* just after the Jump, where the else-arm's Pop is, and the Jump operand is
\* the chunk length at the last patch, the first offset after the else-arm.
C13_JumpOperands ==
    \A r \in compiler.ifs :
        /\ read_op(compiler.chunk, r.jif) = Op("JumpIfFalse", r.jmp + 1)
        /\ read_op(compiler.chunk, r.jif + 1) = Op0("Pop")
        /\ read_op(compiler.chunk, r.jmp + 1) = Op0("Pop")
        /\ r.end # -1 =>
              /\ read_op(compiler.chunk, r.jmp) = Op("Jump", r.end)
              /\ r.jmp + 1 < r.end
              /\ r.end <= code_len(compiler.chunk)

\* An if nested in the then-arm of another, both compiled to the end.
C13_Witness ==
    /\ pc = "run"
    /\ \E r \in compiler.ifs : \E q \in compiler.ifs :
          /\ r.jif < q.jif
          /\ q.end <= r.jmp
          /\ r.end # -1
          /\ q.end # -1

\* The levels of the binary operators and the instructions each stands for.
level(typ) ==
    CASE typ \in {"EqualEqual", "BangEqual"} -> 1
      [] typ \in {"Greater", "GreaterEqual", "Less", "LessEqual"} -> 2
      [] typ \in {"Plus", "Minus"} -> 3
      [] typ \in {"Star", "Slash"} -> 4

applies(typ) ==
    CASE typ = "Plus" -> <<"Add">>
      [] typ = "Minus" -> <<"Subtract">>
      [] typ = "Star" -> <<"Multiply">>
      [] typ = "Slash" -> <<"Divide">>
      [] typ = "EqualEqual" -> <<"Equal">>
      [] typ = "BangEqual" -> <<"Equal", "Not">>
      [] typ = "Greater" -> <<"Greater">>
      [] typ = "GreaterEqual" -> <<"Less", "Not">>
      [] typ = "Less" -> <<"Less">>
      [] typ = "LessEqual" -> <<"Greater", "Not">>

loads(token) == IF token.typ = "True" THEN <<"True">> ELSE <<"Constant">>

\* `print a op1 b op2 c;`
is_triple(tokens) ==
    /\ Len(tokens) = 7
    /\ tokens[1].typ = "Print"
    /\ tokens[2].typ = "Number"
    /\ tokens[3].typ \in BinaryOps
    /\ tokens[4].typ = "Number"
    /\ tokens[5].typ \in BinaryOps
    /\ tokens[6].typ \in {"Number", "True"}
    /\ tokens[7].typ = "SemiColon"

\* op1 first when its level is at least op2's, otherwise op2 first.
triple_code(tokens) ==
    (IF level(tokens[3].typ) >= level(tokens[5].typ)
     THEN <<"Constant", "Constant">> \o applies(tokens[3].typ)
              \o loads(tokens[6]) \o applies(tokens[5].typ)
     ELSE <<"Constant", "Constant">> \o loads(tokens[6])
              \o applies(tokens[5].typ) \o applies(tokens[3].typ))
        \o <<"Print", "Return">>

\* C14: the chunk compiled for `print a op1 b op2 c;` loads the operands
\* in order and applies op1 to (a, b) first when op1's level is at least
\* op2's, and op2 to (b, c) first when op2's level is higher.
C14_PrecedenceOrder ==
    (pc \in {"run", "returned"} /\ is_triple(compiler.tokens)) =>
        /\ ~compiler.had_error
        /\ [i \in 1..code_len(compiler.chunk) |-> compiler.chunk.code[i].op]
              = triple_code(compiler.tokens)

\* `print 1 + 2 * 3;` printed 7.
C14_Witness ==
    /\ pc = "returned"
    /\ is_triple(compiler.tokens)
    /\ compiler.tokens[3].typ = "Plus"
    /\ compiler.tokens[5].typ = "Star"
    /\ vm.output = <<NumberV(7)>>

is_string(value) == value.t = "Obj" /\ arena_get(vm.objects, value.v).kind = "Str"

adds_strings ==
    /\ fetching
    /\ at_op.op = "Add"
    /\ Len(vm.stack) >= 2
    /\ is_string(peek(vm, 0))
    /\ is_string(peek(vm, 1))

concatenated ==
    /\ pc' = "run"
    /\ arena_len(vm'.objects) = arena_len(vm.objects) + 1
    /\ peek(vm', 0) = ObjV(arena_len(vm.objects))
    /\ arena_get(vm'.objects, arena_len(vm.objects))
          = StrO(arena_get(vm.objects, peek(vm, 1).v).text
                    \o arena_get(vm.objects, peek(vm, 0).v).text)
    /\ arena_kept

\* C15: Add on two string objects pushes an Obj that refers to a newly
\* appended arena entry holding the lower operand's text followed by the
\* top operand's text, and changes no earlier arena entry.
C15_AddConcatenates == [][adds_strings => (concatenated)]_vars

\* `"s" + "t"` was added and the new entry printed.
C15_Witness ==
    /\ pc = "returned"
    /\ vm.result = "Ok"
    /\ vm.output = <<StrO("st")>>

\* The instruction at ip is about to be applied to operands it rejects.
type_error ==
    /\ fetching
    /\ \/ /\ at_op.op \in {"Greater", "Less", "Subtract", "Multiply", "Divide"}
          /\ Len(vm.stack) >= 2
          /\ ~(is_number(peek(vm, 0)) /\ is_number(peek(vm, 1)))
       \/ /\ at_op.op = "Negate"
          /\ Len(vm.stack) >= 1
          /\ ~is_number(peek(vm, 0))
       \/ /\ at_op.op = "Add"
          /\ Len(vm.stack) >= 2
          /\ ~(is_number(peek(vm, 0)) /\ is_number(peek(vm, 1)))
          /\ ~(is_string(peek(vm, 0)) /\ is_string(peek(vm, 1)))

run_fails ==
    /\ pc' = "returned"
    /\ vm'.result = "RuntimeError"
    /\ vm'.stack = <<>>
    /\ vm'.output = vm.output

\* C16: Greater, Less, Subtract, Multiply or Divide with a non-number
\* operand, Negate of a non-number, and Add of operands that are neither
\* both numbers nor both strings end run() with RuntimeError, and no result
\* is pushed or printed.
C16_TypeErrorIsRuntimeError == [][type_error => (run_fails)]_vars

\* `print "s" + 0;` ended in a runtime error.
C16_Witness ==
    /\ pc = "returned"
    /\ vm.result = "RuntimeError"
    /\ Len(compiler.tokens) = 5
    /\ compiler.tokens[2].typ = "Str"
    /\ compiler.tokens[3].typ = "Plus"
    /\ compiler.tokens[4].typ = "Number"

\* The instruction at ip reads or assigns a global that is not bound.
undefined_global ==
    /\ fetching
    /\ at_op.op \in {"GetGlobal", "SetGlobal"}
    /\ global_name(vm, compiler.chunk, at_op.arg) \notin DOMAIN vm.globals

fails_unbound ==
    /\ pc' = "returned"
    /\ vm'.result = "RuntimeError"
    /\ vm'.globals = vm.globals
    /\ vm'.output = vm.output

\* C17: GetGlobal or SetGlobal of a name that no binding holds ends run()
\* with RuntimeError, creates no binding and prints nothing; and a name the
\* instruction refers to is the identifier written in the source, so
\* `print a;` alone fails without reaching Print.
C17_UndefinedGlobalIsRuntimeError ==
    /\ [][undefined_global => (fails_unbound)]_vars
    /\ []((mode = "file" /\ pc = "returned" /\ compiler.tokens = PrintVar("a")) =>
             (vm.result = "RuntimeError" /\ vm.output = <<>>
                 /\ ~(\E o \in DOMAIN vm.seen : read_op(compiler.chunk, o).op = "Print")))

\* An assignment to an unbound global failed with the table still empty.
C17_Witness ==
    /\ pc = "returned"
    /\ vm.result = "RuntimeError"
    /\ vm.globals = GlobalsNew
    /\ \E o \in DOMAIN vm.seen : read_op(compiler.chunk, o).op = "SetGlobal"

defines_global == fetching /\ at_op.op = "DefineGlobal" /\ Len(vm.stack) >= 1

bound_to_top ==
    LET name == global_name(vm, compiler.chunk, at_op.arg)
    IN /\ pc' = "run"
       /\ vm'.stack = SubSeq(vm.stack, 1, Len(vm.stack) - 1)
       /\ DOMAIN vm'.globals = DOMAIN vm.globals \cup {name}
       /\ vm'.globals[name] = peek(vm, 0)
       /\ \A n \in DOMAIN vm.globals : n # name => vm'.globals[n] = vm.globals[n]

\* C18: DefineGlobal pops the top value and binds the name to it whether or
\* not the name is bound already, leaving every other binding alone; so
\* `var a = 1; var a = 2;` compiles, runs to Ok and leaves a bound to 2.
C18_DefineGlobalOverwrites ==
    /\ [][defines_global => (bound_to_top)]_vars
    /\ []((mode = "file" /\ pc = "returned"
              /\ compiler.tokens = VarDecl("a") \o VAR \o Ident("a") \o EQ \o Num("2") \o SEMI) =>
             (vm.result = "Ok" /\ DOMAIN vm.globals = {"a"} /\ vm.globals["a"] = NumberV(2)))

\* `var a = 1; var a = 2;` ran to Return.
C18_Witness ==
    /\ mode = "file"
    /\ pc = "returned"
    /\ compiler.tokens = VarDecl("a") \o VAR \o Ident("a") \o EQ \o Num("2") \o SEMI
    /\ vm.globals["a"] = NumberV(2)

compares == fetching /\ at_op.op = "Equal" /\ Len(vm.stack) >= 2

\* Same variant and equal within it: Nil with Nil, the same boolean, the
\* same number, the same object (arena entry).
equal_within(first, second) ==
    /\ first.t = second.t
    /\ CASE first.t = "Nil" -> TRUE
         [] first.t \in {"Bool", "Number"} -> first.v = second.v
         [] first.t = "Obj" -> first.v = second.v

equality_pushed ==
    /\ pc' = "run"
    /\ vm'.stack = Append(SubSeq(vm.stack, 1, Len(vm.stack) - 2),
                          BoolV(equal_within(peek(vm, 1), peek(vm, 0))))

same_text ==
    /\ compares
    /\ is_string(peek(vm, 0))
    /\ is_string(peek(vm, 1))
    /\ arena_get(vm.objects, peek(vm, 0).v).text = arena_get(vm.objects, peek(vm, 1).v).text

true_pushed == pc' = "run" /\ peek(vm', 0) = BoolV(TRUE)

\* C20: Equal on two string objects with the same text pushes Bool(true),
\* also when they are different arena entries.
C20_StringsEqualByText == [][same_text => (true_pushed)]_vars

\* C21 -- Not pops one value and pushes Bool(true) when that value is Nil or
\* Bool(false), and Bool(false) when it is a Number (0 included), Bool(true)
\* or an Obj.
negates == fetching /\ at_op.op = "Not" /\ Len(vm.stack) >= 1

negation(value) ==
    CASE value = NilV -> BoolV(TRUE)
      [] value = BoolV(FALSE) -> BoolV(TRUE)
      [] value = BoolV(TRUE) -> BoolV(FALSE)
      [] value.t = "Number" -> BoolV(FALSE)
      [] value.t = "Obj" -> BoolV(FALSE)

negation_pushed ==
    /\ pc' = "run"
    /\ vm'.stack = Append(SubSeq(vm.stack, 1, Len(vm.stack) - 1), negation(peek(vm, 0)))

C21_NotPushesFalsiness == [][negates => (negation_pushed)]_vars

\* `print !0;` has printed false.
C21_Witness ==
    /\ compiler.tokens = PRINT \o Bin("Bang") \o Num("0") \o SEMI
    /\ pc = "returned"
    /\ vm.result = "Ok"
    /\ vm.output = <<BoolV(FALSE)>>

\* C22 -- Once a parse error has set panic mode, no further error is
\* reported until synchronize() has cleared it: every error in the log was
\* reported with panic mode off.
C22_PanicModeSuppressesErrors ==
    \A i \in 1..Len(compiler.reported) : ~compiler.reported[i].panicking

\* C23 -- When the lines of the writes start at 1 and never decrease,
\* get_line(offset) is, for every offset below the code length, the line
\* passed to the write that produced the op at that offset.
lines_ascend(written) ==
    /\ written # <<>>
    /\ written[1].line = 1
    /\ \A i \in 1..(Len(written) - 1) : written[i].line <= written[i + 1].line

C23_GetLineReturnsWrittenLine ==
    lines_ascend(chunk_run.written) =>
        \A offset \in 0..(code_len(chunk_run.chunk) - 1) :
            get_line(chunk_run.chunk, offset) = chunk_run.written[offset + 1].line

\* C24 -- After any writes with lines >= 1 the line table holds one count
\* per source line: entry k - 1 is the number of ops written with line k,
\* and the counts sum to the code length.
written_with(written, line) ==
    Cardinality({i \in 1..Len(written) : written[i].line = line})

RECURSIVE sum(_)
sum(counts) == IF counts = <<>> THEN 0 ELSE Head(counts) + sum(Tail(counts))

C24_LineTableCountsPerLine ==
    /\ \A k \in 1..Len(chunk_run.chunk.lines) :
          chunk_run.chunk.lines[k] = written_with(chunk_run.written, k)
    /\ \A k \in 1..MaxLine :
          written_with(chunk_run.written, k) > 0 => k <= Len(chunk_run.chunk.lines)
    /\ sum(chunk_run.chunk.lines) = code_len(chunk_run.chunk)

\* C25 -- After a non-empty sequence of writes, read_op(i) is the i-th op
\* written for every i below code_len(), and get_line is non-decreasing in
\* the offset.
C25_ReadOpRoundTripLinesMonotone ==
    chunk_run.written # <<>> =>
        /\ code_len(chunk_run.chunk) = Len(chunk_run.written)
        /\ \A i \in 0..(code_len(chunk_run.chunk) - 1) :
              read_op(chunk_run.chunk, i) = chunk_run.written[i + 1].byte
        /\ \A i, j \in 0..(code_len(chunk_run.chunk) - 1) :
              i <= j => get_line(chunk_run.chunk, i) <= get_line(chunk_run.chunk, j)

\* Three writes, neighbours with different ops, have been read back, and get_line
\* differs between the first offset and the last.
C25_Witness ==
    /\ Len(chunk_run.written) >= 3
    /\ chunk_run.written[1].byte # chunk_run.written[2].byte
    /\ chunk_run.written[2].byte # chunk_run.written[3].byte
    /\ get_line(chunk_run.chunk, 0) < get_line(chunk_run.chunk, 2)

\* C26 -- push(item) makes len() one larger, get(len() - 1) is the pushed
\* item and get(i) is unchanged for every earlier i; so every index the
\* compiler or the VM has issued still names the same object after any
\* later step of the interpreter.
push_appends(ar, item) ==
    LET pushed == arena_push(ar, item)
    IN /\ arena_len(pushed) = arena_len(ar) + 1
       /\ arena_get(pushed, arena_len(pushed) - 1) = item
       /\ \A i \in 0..(arena_len(ar) - 1) : arena_get(pushed, i) = arena_get(ar, i)

indices_kept ==
    /\ arena_len(vm'.objects) >= arena_len(vm.objects)
    /\ \A i \in 0..(arena_len(vm.objects) - 1) :
          arena_get(vm'.objects, i) = arena_get(vm.objects, i)

C26_PushKeepsIndices ==
    /\ [](\A item \in {StrO("s"), IdentO("a")} : push_appends(vm.objects, item))
    /\ [][indices_kept]_vars

\* A second REPL line has concatenated two strings into an arena that held
\* the first line's objects: the VM's push came after the compiler's.
C26_Witness ==
    /\ mode = "repl"
    /\ lines_read >= 1
    /\ pc = "returned"
    /\ vm.result = "Ok"
    /\ arena_len(vm.objects) >= 4
    /\ arena_get(vm.objects, arena_len(vm.objects) - 1) = StrO("stst")

\* Where the next token starts, read off the source: blanks and `//`
\* comments (each up to, not including, the next newline or the end of
\* input) are passed over from offset p; `comments` counts the comments.
Blank == {"\t", " ", "\r", "\n"}

comment_at(source, p) ==
    p + 1 < Len(source) /\ source[p + 1] = "/" /\ source[p + 2] = "/"

RECURSIVE line_end(_, _)
line_end(source, p) ==
    IF p >= Len(source) \/ source[p + 1] = "\n" THEN p ELSE line_end(source, p + 1)

RECURSIVE token_start(_, _, _, _)
token_start(source, p, line, comments) ==
    IF p >= Len(source) THEN [at |-> p, line |-> line, comments |-> comments]
    ELSE IF source[p + 1] = "\n" THEN token_start(source, p + 1, line + 1, comments)
    ELSE IF source[p + 1] \in Blank THEN token_start(source, p + 1, line, comments)
    ELSE IF comment_at(source, p)
    THEN token_start(source, line_end(source, p), line, comments + 1)
    ELSE [at |-> p, line |-> line, comments |-> comments]

next_start ==
    token_start(scanner_run.scanner.source, scanner_run.scanner.current,
                scanner_run.scanner.line, 0)

scans == ~scanner_run.scanner.abort /\ eofs(scanner_run.returned) < 2

\* C28 -- A `//` comment is skipped up to, not including, the next newline
\* or the end of input, and scan_token returns the first token after it:
\* the call does what a call from the first offset after the blanks and
\* comments does, which is to return Eof when nothing follows.
skips_comment == scans /\ next_start.comments > 0

comment_skipped ==
    LET expected == scanner_scan_token([scanner_run.scanner EXCEPT
                                           !.current = next_start.at,
                                           !.line = next_start.line])
    IN IF expected.sc.abort THEN scanner_run'.scanner.abort
       ELSE /\ scanner_run' = ScannerRun(expected.sc,
                                         Append(scanner_run.returned, expected.token))
            /\ next_start.at = Len(scanner_run.scanner.source)
                   => expected.token.typ = "Eof"

C28_CommentSkippedToLineEnd == [][skips_comment => (comment_skipped)]_vars

\* C29 -- An identifier run is a keyword token exactly when its text is one
\* of the twenty keywords; every other alphanumeric run that starts with a
\* letter is an Identifier, and the token is the whole run.
Keywords ==
    { [text |-> "and", typ |-> "And"], [text |-> "case", typ |-> "Case"],
      [text |-> "class", typ |-> "Class"], [text |-> "default", typ |-> "Default"],
      [text |-> "else", typ |-> "Else"], [text |-> "false", typ |-> "False"],
      [text |-> "for", typ |-> "For"], [text |-> "fun", typ |-> "Fun"],
      [text |-> "if", typ |-> "If"], [text |-> "nil", typ |-> "Nil"],
      [text |-> "or", typ |-> "Or"], [text |-> "print", typ |-> "Print"],
      [text |-> "return", typ |-> "Return"], [text |-> "super", typ |-> "Super"],
      [text |-> "switch", typ |-> "Switch"], [text |-> "this", typ |-> "This"],
      [text |-> "true", typ |-> "True"], [text |-> "val", typ |-> "Val"],
      [text |-> "var", typ |-> "Var"], [text |-> "while", typ |-> "While"] }

classified(text) ==
    IF \E k \in Keywords : k.text = text
    THEN (CHOOSE k \in Keywords : k.text = text).typ
    ELSE "Identifier"

is_run(source) ==
    /\ source # <<>>
    /\ source[1] \in Letters
    /\ \A i \in 1..Len(source) : source[i] \in Letters \cup Digits

C29_KeywordsExactly ==
    /\ \A i \in 1..Len(scanner_run.returned) :
          LET token == scanner_run.returned[i]
          IN token.typ \in {k.typ : k \in Keywords} \cup {"Identifier"}
                 => token.typ = classified(token.lexeme)
    /\ (is_run(scanner_run.scanner.source) /\ scanner_run.returned # <<>>)
           => scanner_run.returned[1] =
                  Tok(classified(join(scanner_run.scanner.source)),
                      join(scanner_run.scanner.source), 1)

\* `var vars` has been scanned to its end: a keyword, then an identifier
\* that extends it.
C29_Witness ==
    /\ scanner_run.scanner.source = <<"v", "a", "r", " ", "v", "a", "r", "s">>
    /\ scanner_run.returned =
           <<Tok("Var", "var", 1), Tok("Identifier", "vars", 1), Tok("Eof", "", 1)>>

\* C30 -- A Number token's lexeme is the maximal digit run, extended by a
\* '.' and the digit run after it only when a digit follows the '.'
\* immediately; otherwise the '.' is the next token, a Dot.
RECURSIVE digits_end(_, _)
digits_end(source, p) ==
    IF p < Len(source) /\ source[p + 1] \in Digits THEN digits_end(source, p + 1) ELSE p

number_end(source, p) ==
    LET whole == digits_end(source, p)
    IN IF whole + 1 < Len(source) /\ source[whole + 1] = "."
             /\ source[whole + 2] \in Digits
       THEN digits_end(source, whole + 1)
       ELSE whole

scans_number ==
    /\ scans
    /\ next_start.at < Len(scanner_run.scanner.source)
    /\ scanner_run.scanner.source[next_start.at + 1] \in Digits

number_scanned ==
    LET source == scanner_run.scanner.source
        to == number_end(source, next_start.at)
    IN /\ ~scanner_run'.scanner.abort
       /\ scanner_run'.scanner.current = to
       /\ scanner_run'.returned =
              Append(scanner_run.returned,
                     Tok("Number", join(SubSeq(source, next_start.at + 1, to)),
                         next_start.line))
       /\ (to < Len(source) /\ source[to + 1] = ".")
              => scanner_scan_token(scanner_run'.scanner).token.typ = "Dot"

C30_NumberLexeme == [][scans_number => (number_scanned)]_vars

\* C27 -- When the end of input comes before a closing quote, scan_token
\* returns an Error token with the message 'Unterminated string.' and does
\* not abort, and the next call returns Eof; the compiler that receives the
\* Error token reports it and keeps advancing, and compile fails: nothing
\* panics and nothing runs.
RECURSIVE scan_calls(_)
scan_calls(sc) ==
    LET r == scanner_scan_token(sc)
    IN IF r.sc.abort THEN [tokens |-> <<>>, abort |-> TRUE]
       ELSE IF r.token.typ = "Eof" THEN [tokens |-> <<r.token>>, abort |-> FALSE]
       ELSE LET rest == scan_calls(r.sc)
            IN [tokens |-> <<r.token>> \o rest.tokens, abort |-> rest.abort]

\* The source ends inside a string: it holds an odd number of quotes (the
\* sources of StringTexts hold no comment).
unterminated(source) ==
    Cardinality({i \in 1..Len(source) : source[i] = "\""}) % 2 = 1

ends_unterminated(tokens) ==
    /\ tokens # <<>>
    /\ tokens[Len(tokens)].typ = "Error"
    /\ tokens[Len(tokens)].message = "Unterminated string."

error_then_eof(source) ==
    LET calls == scan_calls(ScannerNew(source))
        n == Len(calls.tokens)
    IN /\ ~calls.abort
       /\ n >= 2
       /\ calls.tokens[n - 1].typ = "Error"
       /\ calls.tokens[n - 1].message = "Unterminated string."
       /\ calls.tokens[n].typ = "Eof"
       /\ compiler.tokens = SubSeq(calls.tokens, 1, n - 1)

C27_UnterminatedStringIsError ==
    /\ Running("compile") =>
          \A source \in StringTexts :
              (unterminated(source) /\ compiler.tokens = scan_source(source))
                  => error_then_eof(source)
    /\ ends_unterminated(compiler.tokens) =>
          /\ pc \notin {"panic", "run"}
          /\ compiler.current.typ # "Error"
          /\ pc = "returned" =>
                /\ vm.result = "CompileError"
                /\ \E i \in 1..Len(compiler.reported) :
                      compiler.reported[i].msg = "Unterminated string."
                /\ compiler.current.typ = "Eof"

\* `print "s` has been compiled to its end, and failed.
C27_Witness ==
    /\ compiler.tokens = scan_source(PrintOpenString)
    /\ ends_unterminated(compiler.tokens)
    /\ pc = "returned"
    /\ vm.result = "CompileError"

newlines_before(source, p) == Cardinality({i \in 1..p : source[i] = "\n"})

returns_token == scans /\ ~scanner_run'.scanner.abort

line_counted ==
    LET source == scanner_run.scanner.source
        token == scanner_run'.returned[Len(scanner_run'.returned)]
    IN /\ token.line = 1 + newlines_before(source, scanner_run'.scanner.current)
       /\ scanner_run'.scanner.line = token.line
       /\ scanner_run'.scanner.line >= scanner_run.scanner.line

\* C31 -- The line of every token is 1 plus the number of newlines in the
\* source before the token's end (newlines between tokens, after comments
\* and inside strings all count), and the line counter never decreases.
C31_TokenLineCountsNewlines == [][returns_token => (line_counted)]_vars

\* A string that holds a newline has been scanned: its token is on line 2.
C31_Witness ==
    /\ scanner_run.scanner.source = <<"\"", "a", "\n", "\"">>
    /\ scanner_run.returned = <<Tok("Str", "a\n", 2)>>

scans_after_eof == scans /\ eofs(scanner_run.returned) >= 1

eof_again ==
    /\ ~scanner_run'.scanner.abort
    /\ scanner_run'.returned[Len(scanner_run'.returned)].typ = "Eof"
    /\ Len(scanner_run'.returned) = Len(scanner_run.returned) + 1
    /\ scanner_run'.scanner.current = scanner_run.scanner.current
    /\ scanner_run'.scanner.line = scanner_run.scanner.line

\* C32 -- Once scan_token has returned Eof, a later call returns Eof again
\* and leaves the cursor and the line counter where they were.
C32_EofIsTerminal == [][scans_after_eof => (eof_again)]_vars

\* Eof has been returned twice for a source of two lines.
C32_Witness ==
    /\ scanner_run.scanner.source = <<"a", "\n", "1">>
    /\ eofs(scanner_run.returned) = 2
    /\ Len(scanner_run.returned) = 4
    /\ scanner_run.scanner.line = 2

BinaryInstructions ==
    {"Equal", "Greater", "Less", "Add", "Subtract", "Multiply", "Divide"}

binary_succeeds == fetching /\ at_op.op \in BinaryInstructions /\ pc' = "run"

two_replaced_by_one ==
    /\ Len(vm'.stack) = Len(vm.stack) - 1
    /\ SubSeq(vm'.stack, 1, Len(vm.stack) - 2) = SubSeq(vm.stack, 1, Len(vm.stack) - 2)

\* C33 -- Every binary instruction that succeeds (Equal, Greater, Less, Add,
\* Subtract, Multiply, Divide) replaces its two operands with one result:
\* the stack is one shorter and the values below the operands are unchanged.
C33_BinaryReplacesTwoWithOne == [][binary_succeeds => (two_replaced_by_one)]_vars

\* The same for the instructions other than Add on two strings.
C33_NumericReplacesTwoWithOne ==
    [][(binary_succeeds /\ ~adds_strings) => (two_replaced_by_one)]_vars

at_return == fetching /\ at_op.op = "Return"

\* C34 -- A program that compiled without error and ran from an empty stack
\* reaches Return with an empty stack: every statement leaves the stack
\* height as it found it.
C34_StackEmptyAtReturn == at_return => vm.stack = <<>>

\* The same for the programs that add no two strings and open no block.
added_strings ==
    \E i \in DOMAIN vm.seen :
        /\ read_op(compiler.chunk, i).op = "Add"
        /\ Len(vm.seen[i]) >= 2
        /\ is_string(vm.seen[i][Len(vm.seen[i])])
        /\ is_string(vm.seen[i][Len(vm.seen[i]) - 1])

opens_block == \E i \in DOMAIN compiler.tokens : compiler.tokens[i].typ = "LeftBrace"

C34_StackEmptyWithoutBlocks ==
    (at_return /\ ~added_strings /\ ~opens_block) => vm.stack = <<>>

holds_jump(o) ==
    /\ o \in 0..(code_len(compiler.chunk) - 1)
    /\ is_jump(read_op(compiler.chunk, o))

jumps == {o \in 0..(code_len(compiler.chunk) - 1) : holds_jump(o)}

times_patched(o) ==
    Cardinality({k \in DOMAIN compiler.patched : compiler.patched[k] = o})

final_return == code_len(compiler.chunk) - 1

forward_to_return(o) ==
    /\ read_op(compiler.chunk, o).arg > o
    /\ read_op(compiler.chunk, o).arg <= final_return

\* C35 -- Every jump emitted with the placeholder 0 is patched exactly once;
\* in the finished chunk every Jump/JumpIfFalse operand is greater than the
\* jump's own offset and at most the offset of the final Return; and every
\* offset handed to patch_jump holds a jump, so patch_jump never aborts.
C35_JumpsPatchedOnceForward ==
    /\ \A k \in DOMAIN compiler.patched : holds_jump(compiler.patched[k])
    /\ \A o \in jumps : times_patched(o) <= 1
    /\ pc \in {"run", "returned"} =>
          /\ read_op(compiler.chunk, final_return) = Op0("Return")
          /\ \A o \in jumps : times_patched(o) = 1 /\ forward_to_return(o)

\* Two if statements compiled to the end, the last Jump aimed at the
\* final Return.
C35_Witness ==
    /\ pc = "run"
    /\ Len(compiler.patched) = 4
    /\ \E o \in jumps : read_op(compiler.chunk, o) = Op("Jump", final_return)

cleans == arena_run'.calls = Append(arena_run.calls, "clean")

clean_keeps ==
    /\ arena_len(arena_run'.arena) = arena_len(arena_run.arena)
    /\ \A i \in 0..(arena_len(arena_run.arena) - 1) :
          arena_get(arena_run'.arena, i) = arena_get(arena_run.arena, i)
    /\ arena_run'.arena.current = heap_next(arena_run.arena.current)

\* C36 -- In any interleaving of push and clean, the buffer that is not live
\* is empty when clean starts, and clean leaves len() and get(i) for every
\* i below len() unchanged.
C36_CleanKeepsItems ==
    /\ [](arena_other(arena_run.arena) = <<>>)
    /\ [][cleans => (clean_keeps)]_vars

\* Two flips with a push before each: the items are back in the first
\* buffer, in the order pushed.
C36_Witness ==
    /\ arena_run.calls = <<"push", "clean", "push", "clean">>
    /\ arena_run.arena.current = "A"
    /\ arena_len(arena_run.arena) = 2
    /\ arena_get(arena_run.arena, 0) = StrO("s")
    /\ arena_get(arena_run.arena, 1) = StrO("t")

cursor_within_source ==
    scanner_run.scanner.current <= Len(scanner_run.scanner.source)

\* C37 -- For every source and every call, scan_token returns a token and
\* reads no index outside the source: the cursor never exceeds the source
\* length and no call ends in an out-of-bounds read.
C37_ScanReadsWithinSource == cursor_within_source /\ ~scanner_run.scanner.abort

\* The part about the cursor alone.
C37_CursorWithinSource == cursor_within_source

synchronized(c) ==
    \/ c.current.typ = "Eof"
    \/ c.previous.typ = "SemiColon"
    \/ c.current.typ \in SyncTokens

declaration_consumes ==
    /\ unread(compiler') < Head(frames).n
    /\ unread(compiler') <= unread(compiler)
    /\ compiler.panic_mode => synchronized(compiler')

panic_mode_cleared == ~compiler'.panic_mode

loop_at_eof ==
    /\ Running("compile_loop") \/ Running("block")
    /\ compiler.current.typ = "Eof"

loop_stops ==
    /\ Len(frames') <= Len(frames)
    /\ frames' # <<>> => Head(frames').fn # "declaration"

CompilerFunctions ==
    {"compile", "compile_loop", "end", "declaration", "declaration_end",
     "var_declaration", "statement", "print_statement", "expression_statement",
     "block", "end_scope", "if_statement", "if_statement_else", "if_statement_end"}

\* The part about termination: all of the above but panic mode.
C38_CompileComesToAnEnd ==
    /\ [](pc = "compile" => frames # <<>> /\ Head(frames).fn \in CompilerFunctions)
    /\ [](Running("declaration") => compiler.current.typ # "Eof")
    /\ [][Running("declaration_end") => (declaration_consumes)]_vars
    /\ [][loop_at_eof => (loop_stops)]_vars
    /\ (pc = "compile") ~> (pc # "compile")

\* C38 -- compile terminates for every token sequence, with or without
\* errors: a declaration starts only on a token other than Eof, the
\* top-level loop and the block loop stop at Eof, every declaration returns
\* with fewer unread tokens than it began with and with panic mode
\* cleared, where synchronize stopped (at Eof, after a ';' or in front of a
\* statement keyword), and every compile started comes to an end.
C38_CompileTerminates ==
    /\ C38_CompileComesToAnEnd
    /\ [][Running("declaration_end") => (panic_mode_cleared)]_vars

\* The declarations in which synchronize skips no Error token return with
\* panic mode cleared.
skips_error ==
    \E i \in (compiler.pos + 1)..compiler'.pos : compiler.tokens[i].typ = "Error"

C38_PanicModeClearedWithoutErrorTokens ==
    [][(Running("declaration_end") /\ ~skips_error) => (panic_mode_cleared)]_vars

====
